---- MODULE Spec2Model ----
(***************************************************************************)
(* A model of the heading-outline extractor: extract_text.py (the per-page *)
(* heading detection passes and the noise filters), format.py (the title   *)
(* selection and the H1..H4 level assignment) and main.py (the batch       *)
(* driver).                                                                *)
(*                                                                         *)
(* Texts are strings; a character is a string of length 1.  Font sizes,    *)
(* coordinates and page heights are integers in hundredths of a unit, so   *)
(* that the code's float comparisons (x >= y * 1.5, y < h * 0.1, ...)      *)
(* become exact integer comparisons after cross-multiplication.            *)
(***************************************************************************)
EXTENDS Integers, Sequences, FiniteSets, TLC

(***************************************************************************)
(* Python's str and re primitives used by the code.                        *)
(***************************************************************************)
\* s[i-1] (1-based), and "" outside the string
Ch(s, i) == IF i >= 1 /\ i <= Len(s) THEN SubSeq(s, i, i) ELSE ""

Digits == {"0", "1", "2", "3", "4", "5", "6", "7", "8", "9"}

UpperLetters == {"A", "B", "C", "D", "E", "F", "G", "H", "I", "J", "K", "L", "M",
                 "N", "O", "P", "Q", "R", "S", "T", "U", "V", "W", "X", "Y", "Z"}

LowerLetters == {"a", "b", "c", "d", "e", "f", "g", "h", "i", "j", "k", "l", "m",
                 "n", "o", "p", "q", "r", "s", "t", "u", "v", "w", "x", "y", "z"}

UpperAlphabet == "ABCDEFGHIJKLMNOPQRSTUVWXYZ"

LowerAlphabet == "abcdefghijklmnopqrstuvwxyz"

\* \s of re and the whitespace of str.strip / str.split
Spaces == {" ", "\t", "\n", "\r"}

\* \w of re
WordChars == Digits \cup UpperLetters \cup LowerLetters \cup {"_"}

ToLowerMap == [c \in UpperLetters |->
                 Ch(LowerAlphabet, CHOOSE i \in 1..26 : Ch(UpperAlphabet, i) = c)]

LowerCh(c) == IF c \in UpperLetters THEN ToLowerMap[c] ELSE c

RECURSIVE Lower(_)
\* str.lower(), by halves
Lower(s) ==
    IF Len(s) <= 1 THEN LowerCh(s)
    ELSE Lower(SubSeq(s, 1, Len(s) \div 2)) \o Lower(SubSeq(s, Len(s) \div 2 + 1, Len(s)))

\* all(c in cls for c in s[i-1:j])
AllIn(s, i, j, cls) == \A k \in i..j : Ch(s, k) \in cls

\* the first position >= i of s whose character is not in cls (Len(s)+1 if none):
\* where a greedy cls* started at i stops
RunEnd(s, i, cls) ==
    IF i > Len(s) THEN i
    ELSE CHOOSE k \in i..(Len(s) + 1) :
             /\ k = Len(s) + 1 \/ Ch(s, k) \notin cls
             /\ \A j \in i..(k - 1) : Ch(s, j) \in cls

\* str.lstrip(), str.rstrip(), str.strip()
RECURSIVE RStrip(_)
RStrip(s) == IF s # "" /\ Ch(s, Len(s)) \in Spaces
             THEN RStrip(SubSeq(s, 1, Len(s) - 1)) ELSE s

LStrip(s) == SubSeq(s, RunEnd(s, 1, Spaces), Len(s))

Strip(s) == RStrip(LStrip(s))

RECURSIVE StripChars(_, _)
\* str.strip(chars)
StripChars(s, cls) ==
    IF s # "" /\ Head(s) \in cls THEN StripChars(Tail(s), cls)
    ELSE IF s # "" /\ Ch(s, Len(s)) \in cls
         THEN StripChars(SubSeq(s, 1, Len(s) - 1), cls)
         ELSE s

\* str.isdigit()
IsDigit(s) == s # "" /\ AllIn(s, 1, Len(s), Digits)

\* s[i-1:].startswith(p)
StartsAt(s, i, p) == i + Len(p) - 1 <= Len(s) /\ SubSeq(s, i, i + Len(p) - 1) = p

StartsWith(s, p) == StartsAt(s, 1, p)

EndsWith(s, p) == Len(p) <= Len(s) /\ SubSeq(s, Len(s) - Len(p) + 1, Len(s)) = p

\* p in s
Contains(s, p) == \E i \in 1..(Len(s) - Len(p) + 1) : StartsAt(s, i, p)

\* s.count(c) for a single character c
Count(s, c) == Cardinality({i \in 1..Len(s) : Ch(s, i) = c})

\* the first position >= i of s whose character is in cls (Len(s)+1 if none)
FindIn(s, i, cls) ==
    IF i > Len(s) THEN i
    ELSE CHOOSE k \in i..(Len(s) + 1) :
             /\ k = Len(s) + 1 \/ Ch(s, k) \in cls
             /\ \A j \in i..(k - 1) : Ch(s, j) \notin cls

RECURSIVE SplitFrom(_, _)
\* str.split(): the maximal runs of non-whitespace, from position i on
SplitFrom(s, i) ==
    LET b == RunEnd(s, i, Spaces)
        e == FindIn(s, b, Spaces)
    IN  IF b > Len(s) THEN <<>>
        ELSE <<SubSeq(s, b, e - 1)>> \o SplitFrom(s, e)

Split(s) == SplitFrom(s, 1)

RECURSIVE Join(_, _)
\* sep.join(parts)
Join(parts, sep) ==
    IF parts = <<>> THEN ""
    ELSE IF Len(parts) = 1 THEN parts[1]
    ELSE parts[1] \o sep \o Join(Tail(parts), sep)

\* \b of re at the gap before position i of s
WordBoundary(s, i) ==
    LET before == i > 1 /\ Ch(s, i - 1) \in WordChars
        after  == i <= Len(s) /\ Ch(s, i) \in WordChars
    IN  before # after

\* re.search(r'\bw\b', s) with the match at position i
WordAt(s, i, w) == StartsAt(s, i, w) /\ WordBoundary(s, i) /\ WordBoundary(s, i + Len(w))

(***************************************************************************)
(* The regular expressions of format.py and extract_text.py.  Every text   *)
(* they are applied to has been stripped, so $ is the end of the text.     *)
(***************************************************************************)
\* ^\d+\.?\s*$
MatchNumberedPoint(t) ==
    LET d == RunEnd(t, 1, Digits)
        p == IF Ch(t, d) = "." THEN d + 1 ELSE d
    IN  d > 1 /\ RunEnd(t, p, Spaces) = Len(t) + 1

RECURSIVE SectionTail(_, _)
\* (\.\d+)*\s*$ from position i
SectionTail(t, i) ==
    IF Ch(t, i) = "." /\ Ch(t, i + 1) \in Digits
    THEN SectionTail(t, RunEnd(t, i + 1, Digits))
    ELSE RunEnd(t, i, Spaces) = Len(t) + 1

\* ^\d+(\.\d+)*\s*$
MatchSectionNumber(t) ==
    LET d == RunEnd(t, 1, Digits) IN d > 1 /\ SectionTail(t, d)

\* ^[A-Z]{1,n}\d*$
MatchShortCode(t, n) ==
    LET u == RunEnd(t, 1, UpperLetters)
    IN  u > 1 /\ u - 1 <= n /\ RunEnd(t, u, Digits) = Len(t) + 1

\* ^(alt1|alt2|...)\s*\d+ , or with \s+ when minSpaces = 1
MatchPrefixNumber(s, alts, minSpaces) ==
    \E a \in alts :
        /\ StartsWith(s, a)
        /\ LET b == RunEnd(s, Len(a) + 1, Spaces)
           IN  b - (Len(a) + 1) >= minSpaces /\ Ch(s, b) \in Digits

Months == {"january", "february", "march", "april", "may", "june", "july",
           "august", "september", "october", "november", "december"}

\* ^(january|...|december)\s+\d+,?\s+\d{4}
MatchMonthDate(s) ==
    \E m \in Months :
        /\ StartsWith(s, m)
        /\ LET a == Len(m) + 1
               b == RunEnd(s, a, Spaces)
               c == RunEnd(s, b, Digits)
               e == IF Ch(s, c) = "," THEN c + 1 ELSE c
               f == RunEnd(s, e, Spaces)
           IN  b > a /\ c > b /\ f > e /\ f + 3 <= Len(s) /\ AllIn(s, f, f + 3, Digits)

DateSeparators == {"/", "-"}

\* ^\d{lo1,hi1}[\/\-]\d{lo1,hi1}[\/\-]\d{lo3,} : hi1 = 0 stands for "no upper limit"
MatchDate(t, lo1, hi1, lo3) ==
    LET d1 == RunEnd(t, 1, Digits)
        d2 == RunEnd(t, d1 + 1, Digits)
        d3 == RunEnd(t, d2 + 1, Digits)
        ok(n) == n >= lo1 /\ (hi1 = 0 \/ n <= hi1)
    IN  /\ ok(d1 - 1) /\ Ch(t, d1) \in DateSeparators
        /\ ok(d2 - (d1 + 1)) /\ Ch(t, d2) \in DateSeparators
        /\ d3 - (d2 + 1) >= lo3

RECURSIVE MatchWordsFrom(_, _, _)
\* w1\s+w2\s+...wn$ from position i, each wk one of the strings of the set ws[k]
MatchWordsFrom(s, i, ws) ==
    \E w \in ws[1] :
        /\ StartsAt(s, i, w)
        /\ IF Len(ws) = 1 THEN i + Len(w) = Len(s) + 1
           ELSE LET b == RunEnd(s, i + Len(w), Spaces)
                IN  b > i + Len(w) /\ MatchWordsFrom(s, b, Tail(ws))

\* ^w1\s+w2\s+...wn$
MatchWords(s, ws) == MatchWordsFrom(s, 1, ws)

\* the pathway table headers of format.py 45-49 and extract_text.py 116-128
MatchPathwayHeader(s) ==
    \/ MatchWords(s, <<{"regular"}, {"pathway"}>>)
    \/ MatchWords(s, <<{"distinction"}, {"pathway"}>>)
    \/ MatchWords(s, <<{"honor", "honors"}, {"pathway"}>>)
    \/ MatchWords(s, <<{"advanced"}, {"pathway"}>>)
    \/ MatchWords(s, <<{"regular"}, {"pathway"}, {"distinction"}, {"pathway"}>>)
    \/ MatchWords(s, <<{"distinction"}, {"pathway"}, {"regular"}, {"pathway"}>>)

ModalWords == {"will", "shall", "must", "should", "could", "would", "may", "might"}

ModalVerbs == {"be", "have", "do", "provide", "include", "ensure"}

\* re.search(r'\b(will|...)\b.*\b(be|...)\b', s)
SearchModal(s) ==
    \E i \in 1..Len(s) :
        /\ WordBoundary(s, i)
        /\ \E m \in ModalWords :
               /\ WordAt(s, i, m)
               /\ \E j \in (i + Len(m))..Len(s) :
                      /\ WordBoundary(s, j)
                      /\ \E v \in ModalVerbs : WordAt(s, j, v)
                      /\ \A k \in (i + Len(m))..(j - 1) : Ch(s, k) # "\n"

\* ^[A-Z][a-z]+ [a-z]+ [a-z]+ [a-z]+
MatchFormalTitle(t) ==
    LET a == RunEnd(t, 2, LowerLetters)
        b == RunEnd(t, a + 1, LowerLetters)
        c == RunEnd(t, b + 1, LowerLetters)
        d == RunEnd(t, c + 1, LowerLetters)
    IN  /\ Ch(t, 1) \in UpperLetters /\ a > 2
        /\ Ch(t, a) = " " /\ b > a + 1
        /\ Ch(t, b) = " " /\ c > b + 1
        /\ Ch(t, c) = " " /\ d > c + 1

(***************************************************************************)
(* format.py: assign_heading_levels.  A heading is a record                *)
(* [text, font_size, bold, italic, page]; an outline entry is a record     *)
(* [level, text, page].                                                    *)
(***************************************************************************)
FormFieldWords == {"name", "date", "amount", "total", "yes", "no", "relationship", "version"}

BodyTextStarts == {"it is expected", "there will be", "funding from", "result:",
                   "is every indication"}

\* format.py 20
is_pathway_document(headings) ==
    \E i \in 1..Len(headings) : Contains(Lower(headings[i].text), "pathway")

\* format.py 26-39: the heading is skipped
IsProblematicHeading(text) ==
    LET lower == Lower(text)
    IN  \/ Len(text) < 2
        \/ IsDigit(text)
        \/ lower \in FormFieldWords
        \/ MatchNumberedPoint(text)
        \/ (Len(text) = 1 /\ Ch(text, 1) \in UpperLetters)
        \/ MatchShortCode(text, 3)
        \/ MatchPrefixNumber(lower, {"page", "pg", "p."}, 0)
        \/ MatchPrefixNumber(lower, {"fig", "figure"}, 0)
        \/ MatchPrefixNumber(lower, {"table", "tab", "chart"}, 1)
        \/ MatchMonthDate(lower)
        \/ MatchDate(text, 1, 2, 2)
        \/ MatchDate(text, 1, 0, 1)
        \/ Count(text, " ") > 20
        \/ Len(text) > 150

\* format.py 58-60: obvious body text
IsBodyTextPattern(text) ==
    LET lower == Lower(text)
    IN  \/ \E p \in BodyTextStarts : StartsWith(lower, p)
        \/ Count(text, ".") > 2
        \/ SearchModal(lower)

\* format.py 22-61: the heading is appended to filtered_headings
KeepsHeading(heading, pathway) ==
    LET text  == Strip(heading.text)
        words == Split(text)
    IN  /\ ~IsProblematicHeading(text)
        /\ ~(pathway /\ MatchPathwayHeader(Lower(text)))
        /\ Len(words) >= 1 /\ (Len(words) > 1 \/ Len(text) >= 5)
        /\ ~MatchSectionNumber(text)
        /\ ~IsBodyTextPattern(text)

\* format.py 17-61
filtered_headings(headings) ==
    LET pathway == is_pathway_document(headings)
        keep(h) == KeepsHeading(h, pathway)
    IN  SelectSeq(headings, keep)

TitleReferenceStarts == {"page ", "fig ", "figure ", "table ", "version ", "revision "}

TitleFormFields == {"name", "date", "amount", "relationship", "signature"}

GreetingWords == {"hope", "see", "there", "welcome", "thank", "please"}

DocumentTypeWords == {"application", "form", "report", "document", "manual", "guide",
                      "proposal", "contract", "agreement", "overview", "foundation",
                      "extension", "syllabus", "rfp", "request", "plan", "business",
                      "library", "digital", "ontario"}

RfpWords == {"rfp", "request", "proposal", "present", "developing", "business", "plan",
             "digital", "library", "ontario"}

RfpTopicWords == {"request", "proposal", "business", "plan", "ontario", "digital", "library"}

RfpTitle ==
    "RFP:Request for Proposal To Present a Proposal for Developing the Business Plan for the Ontario Digital Library"

\* format.py 99-113: the stripped text is a valid title part
IsValidTitlePart(text) ==
    LET lower == Lower(text)
        d     == RunEnd(text, 1, Digits)
    IN  /\ Len(text) > 5
        /\ ~IsDigit(text)
        /\ ~EndsWith(text, ":")
        /\ ~Contains(SubSeq(text, 1, 5), ".")
        /\ ~\E p \in TitleReferenceStarts : StartsWith(lower, p)
        /\ ~(d > 1 /\ Ch(text, d) = ".")
        /\ ~MatchShortCode(text, 5)
        /\ lower \notin TitleFormFields
        /\ ~EndsWith(text, "!")
        /\ ~\E w \in GreetingWords : Contains(lower, w)
        /\ \/ \E w \in DocumentTypeWords : Contains(lower, w)
           \/ MatchFormalTitle(text)
           \/ Len(Split(text)) >= 4
        /\ Len(Split(text)) >= 2

\* the smallest size instead of the largest: the sort of format.py 87 without
\* reverse=True
MinFontSize(hs) ==
    CHOOSE m \in {hs[i].font_size : i \in 1..Len(hs)} :
        \A i \in 1..Len(hs) : hs[i].font_size >= m

\* max(x['font_size'] for x in hs), hs not empty
MaxFontSize(hs) ==
    CHOOSE m \in {hs[i].font_size : i \in 1..Len(hs)} :
        \A i \in 1..Len(hs) : hs[i].font_size <= m

\* the title parts taken from the largest headings of all the pages
ValidTitlePartsAnyPage(headings) ==
    IF headings = <<>> THEN <<>>
    ELSE LET largest_font_size == MaxFontSize(headings)
             isLargest(h) == h.font_size = largest_font_size
             largest_headings == SelectSeq(headings, isLargest)
             texts == [i \in 1..Len(largest_headings) |-> Strip(largest_headings[i].text)]
         IN  SelectSeq(texts, IsValidTitlePart)

\* format.py 84-114: the stripped texts of the largest first-page headings that
\* look like a title component, in list order
valid_title_parts(headings) ==
    LET onFirst(h) == h.page = 0
        first_page_headings == SelectSeq(headings, onFirst)
    IN  IF first_page_headings = <<>> THEN <<>>
        ELSE LET largest_font_size == MaxFontSize(first_page_headings)
                 isLargest(h) == h.font_size = largest_font_size
                 largest_headings == SelectSeq(first_page_headings, isLargest)
                 texts == [i \in 1..Len(largest_headings) |-> Strip(largest_headings[i].text)]
             IN  SelectSeq(texts, IsValidTitlePart)

\* max(parts, key=len): the first of the longest
LongestOf(parts) ==
    LET i == CHOOSE k \in 1..Len(parts) :
                 /\ \A j \in 1..Len(parts) : Len(parts[j]) <= Len(parts[k])
                 /\ \A j \in 1..(k - 1) : Len(parts[j]) < Len(parts[k])
    IN  parts[i]

RECURSIVE InsertByLen(_, _)
\* x inserted into a sequence sorted by descending length, after its equals
InsertByLen(sorted, x) ==
    IF sorted = <<>> THEN <<x>>
    ELSE IF Len(Head(sorted)) >= Len(x) THEN <<Head(sorted)>> \o InsertByLen(Tail(sorted), x)
    ELSE <<x>> \o sorted

RECURSIVE SortByLenDesc(_)
\* sorted(parts, key=len, reverse=True): stable
SortByLenDesc(parts) ==
    IF parts = <<>> THEN <<>>
    ELSE InsertByLen(SortByLenDesc(SubSeq(parts, 1, Len(parts) - 1)), parts[Len(parts)])

RECURSIVE FlattenWords(_)
\* the words of every fragment, in order
FlattenWords(frags) ==
    IF frags = <<>> THEN <<>> ELSE Split(Head(frags)) \o FlattenWords(Tail(frags))

WordPunctuation == {".", ",", "!", "?", ":"}

RECURSIVE UniqueWords(_, _)
\* format.py 138-147: the words not seen before (compared lower-cased and stripped
\* of punctuation) and longer than one character
UniqueWords(words, seen_words) ==
    IF words = <<>> THEN <<>>
    ELSE LET word_clean == StripChars(Lower(Head(words)), WordPunctuation)
         IN  IF word_clean \notin seen_words /\ Len(word_clean) > 1
             THEN <<Head(words)>> \o UniqueWords(Tail(words), seen_words \cup {word_clean})
             ELSE UniqueWords(Tail(words), seen_words)

\* format.py 116-155: the title combined from the valid title parts
CombineTitle(parts) ==
    LET isRfp(part) == \E w \in RfpWords : Contains(Lower(part), w)
        rfp_fragments == SelectSeq(parts, isRfp)
        combined_text == Lower(Join(rfp_fragments, " "))
        unique_words  == UniqueWords(FlattenWords(SortByLenDesc(rfp_fragments)), {})
    IN  IF parts = <<>> THEN ""
        ELSE IF rfp_fragments # <<>>
        THEN IF Contains(combined_text, "rfp")
                /\ \E w \in RfpTopicWords : Contains(combined_text, w)
             THEN RfpTitle
             ELSE IF unique_words # <<>> THEN Join(unique_words, " ")
                  ELSE LongestOf(rfp_fragments)
        ELSE IF Len(parts) = 1 THEN parts[1]
        ELSE LongestOf(parts)

\* format.py 79-155, on the filtered headings
SelectTitle(headings) == CombineTitle(valid_title_parts(headings))

\* only a heading whose text equals the title is dropped
IsNonTitleExact(heading, title) == ~(title # "" /\ heading.text = title)

\* only the first page's headings compared with the title
IsNonTitleFirstPage(heading, title) ==
    heading.page # 0 \/ (title = "" \/ ~Contains(title, heading.text))

\* format.py 157-164: a heading is kept when its text is neither the title nor
\* contained in it
IsNonTitle(heading, title) ==
    ~(title # "" /\ heading.text = title) /\ (title = "" \/ ~Contains(title, heading.text))

non_title_headings(headings, title) ==
    LET keep(h) == IsNonTitle(h, title) IN SelectSeq(headings, keep)

available_levels == <<"H1", "H2", "H3", "H4">>

\* the sizes sorted ascending: format.py 175 without reverse=True
RankOfAscending(sizes, fs) == Cardinality({x \in sizes : x < fs}) + 1

\* format.py 175: the distinct sizes, how many of them are larger than fs, plus one
RankOf(sizes, fs) == Cardinality({x \in sizes : x > fs}) + 1

\* the bands measured upwards from min_size instead of downwards from max_size
BandLevelFromMin(sizes, fs) ==
    LET max_size == CHOOSE m \in sizes : \A x \in sizes : x <= m
        min_size == CHOOSE m \in sizes : \A x \in sizes : x >= m
        size_range == max_size - min_size
    IN  IF size_range > 0
        THEN IF 4 * fs > 4 * min_size + 3 * size_range THEN "H4"
             ELSE IF 4 * fs > 4 * min_size + 2 * size_range THEN "H3"
             ELSE IF 4 * fs > 4 * min_size + size_range THEN "H2"
             ELSE "H1"
        ELSE "H1"

\* range_size = size_range / 3: three bands instead of four
BandLevelThirds(sizes, fs) ==
    LET max_size == CHOOSE m \in sizes : \A x \in sizes : x <= m
        min_size == CHOOSE m \in sizes : \A x \in sizes : x >= m
        size_range == max_size - min_size
    IN  IF size_range > 0
        THEN IF 3 * fs > 3 * max_size - size_range THEN "H1"
             ELSE IF 3 * fs > 3 * max_size - 2 * size_range THEN "H2"
             ELSE IF 3 * fs > 3 * max_size - 3 * size_range THEN "H3"
             ELSE "H4"
        ELSE "H1"

\* format.py 193-215: the level of fs among more than four sizes; range_size is
\* size_range / 4, so every comparison is taken times 4
BandLevel(sizes, fs) ==
    LET max_size == CHOOSE m \in sizes : \A x \in sizes : x <= m
        min_size == CHOOSE m \in sizes : \A x \in sizes : x >= m
        size_range == max_size - min_size
    IN  IF size_range > 0
        THEN IF 4 * fs > 4 * max_size - size_range THEN "H1"
             ELSE IF 4 * fs > 4 * max_size - 2 * size_range THEN "H2"
             ELSE IF 4 * fs > 4 * max_size - 3 * size_range THEN "H3"
             ELSE "H4"
        ELSE "H1"

\* the levels start at H2, as if the title held H1
LevelMappingBelowTitle(hs) ==
    LET sizes == {hs[i].font_size : i \in 1..Len(hs)}
    IN  [fs \in sizes |->
            IF RankOf(sizes, fs) >= 4 THEN "H4" ELSE available_levels[RankOf(sizes, fs) + 1]]

\* format.py 166-219: level_mapping over the sizes of the non-title headings
level_mapping(hs) ==
    LET sizes == {hs[i].font_size : i \in 1..Len(hs)}
    IN  [fs \in sizes |->
            IF Cardinality(sizes) <= 4 THEN available_levels[RankOf(sizes, fs)]
            ELSE BandLevel(sizes, fs)]

\* the page numbered from 1
MakeOutlineOneBased(hs) ==
    LET mapping == level_mapping(hs)
    IN  [i \in 1..Len(hs) |->
            [level |-> mapping[hs[i].font_size],
             text  |-> hs[i].text,
             page  |-> hs[i].page + 1]]

\* format.py 221-231
MakeOutline(hs) ==
    LET mapping == level_mapping(hs)
    IN  [i \in 1..Len(hs) |->
            [level |-> IF hs[i].font_size \in DOMAIN mapping
                       THEN mapping[hs[i].font_size] ELSE "H4",
             text  |-> hs[i].text,
             page  |-> hs[i].page]]

EmptyResult == [title |-> "", outline |-> <<>>]

\* format.py 13-164: the title and the list non_title_headings the outline is
\* made from (empty on both early returns)
TitleAndKept(headings) ==
    LET filtered == filtered_headings(headings)
        title    == SelectTitle(filtered)
    IN  IF headings = <<>> \/ filtered = <<>>
        THEN [title |-> "", kept |-> <<>>]
        ELSE [title |-> title, kept |-> non_title_headings(filtered, title)]

\* format.py 8-236
OutlineOf(tk) == [title |-> tk.title, outline |-> MakeOutline(tk.kept)]

assign_heading_levels(headings) == OutlineOf(TitleAndKept(headings))

(***************************************************************************)
(* extract_text.py: the noise filters.  The characters of the model are    *)
(* ASCII: the bullet of line 40 and the currency signs of line 82 other    *)
(* than $ have no counterpart here.                                        *)
(***************************************************************************)
\* '.' of re matches every character of s[i-1:j] (no line break among them)
OneLine(s, i, j) == \A k \in i..j : Ch(s, k) # "\n"

\* the part of s before its first line break: what an unanchored .* can cross
FirstLine(s) == SubSeq(s, 1, FindIn(s, 1, {"\n"}) - 1)

\* re.match(r'.*a.*b.*', s)
MatchInOrder(s, a, b) ==
    LET f == FirstLine(s)
    IN  \E i \in 1..Len(f) :
            StartsAt(f, i, a) /\ Contains(SubSeq(f, i + Len(a), Len(f)), b)

\* ^page\s+\d+$
MatchPageNumber(s) ==
    LET b == RunEnd(s, 5, Spaces)
    IN  StartsWith(s, "page") /\ b > 5 /\ b <= Len(s) /\ RunEnd(s, b, Digits) = Len(s) + 1

\* ^\d+\s*[\/\-]\s*\d+$
MatchRatio(s) ==
    LET d == RunEnd(s, 1, Digits)
        a == RunEnd(s, d, Spaces)
        b == RunEnd(s, a + 1, Spaces)
    IN  /\ d > 1 /\ Ch(s, a) \in DateSeparators
        /\ b <= Len(s) /\ RunEnd(s, b, Digits) = Len(s) + 1

\* ^fig\.?\s*\d*$ and ^table\.?\s*\d*$
MatchReference(s, word) ==
    LET p == IF Ch(s, Len(word) + 1) = "." THEN Len(word) + 2 ELSE Len(word) + 1
    IN  StartsWith(s, word) /\ RunEnd(s, RunEnd(s, p, Spaces), Digits) = Len(s) + 1

\* ^appendix\s*[a-z]?$
MatchAppendix(s) ==
    LET a == RunEnd(s, 9, Spaces)
    IN  /\ StartsWith(s, "appendix")
        /\ a = Len(s) + 1 \/ (a = Len(s) /\ Ch(s, a) \in LowerLetters)

\* extract_text.py 17-27 and 192-200, on the lower-cased stripped text; the last
\* two patterns (web addresses) are those of is_non_meaningful_heading only
NonHeadingPattern(s) ==
    \/ MatchPageNumber(s)
    \/ MatchRatio(s)
    \/ Len(s) = 1 /\ s \in LowerLetters
    \/ Len(s) = 3 /\ Ch(s, 1) = "(" /\ Ch(s, 2) \in LowerLetters /\ Ch(s, 3) = ")"
    \/ MatchReference(s, "fig")
    \/ MatchReference(s, "table")
    \/ MatchAppendix(s)

\* ^www\..*\.com.*$ and ^.*\.com\s*$
WebAddressPattern(s) ==
    \/ /\ StartsWith(s, "www.") /\ OneLine(s, 1, Len(s))
       /\ Contains(SubSeq(s, 5, Len(s)), ".com")
    \/ LET r == RStrip(s) IN EndsWith(r, ".com") /\ OneLine(r, 1, Len(r))

ShortFieldWords == {"date", "name", "age", "no", "ref", "id", "s.no", "version"}

PlaceholderPhrases == {"signature", "date signature", "government servant"}

\* ^.*\d+\s*\.{3,}.*\d+$
MatchContentsEntry(s) ==
    \E i \in 1..Len(s) :
        /\ Ch(s, i) \in Digits
        /\ LET q == RunEnd(s, i + 1, Spaces)
           IN  /\ StartsAt(s, q, "...") /\ q + 3 <= Len(s)
               /\ Ch(s, Len(s)) \in Digits
               /\ OneLine(s, 1, i - 1) /\ OneLine(s, q + 3, Len(s))

\* re.search(r'\d+\s+\d+\s+\d+', s)
SearchNumberRow(s) ==
    \E i \in 1..Len(s) :
        /\ Ch(s, i) \in Digits
        /\ LET a == RunEnd(s, i + 1, Spaces)
               c == RunEnd(s, a, Digits)
               e == RunEnd(s, c, Spaces)
           IN  a > i + 1 /\ c > a /\ e > c /\ Ch(s, e) \in Digits

CurrencySigns == {"$"}

\* a currency sign at position i, \s*, a digit: the position after the first digit
\* (0 if there is no match at i)
CurrencyAt(s, i) ==
    LET d == RunEnd(s, i + 1, Spaces)
    IN  IF Ch(s, i) \in CurrencySigns /\ Ch(s, d) \in Digits THEN d + 1 ELSE 0

\* re.search(r'[\$...]\s*\d+.*[\$...]\s*\d+|%.*%|\d+%.*\d+%', s); a match of the
\* third alternative holds one of the second
SearchCurrencyOrPercent(s) ==
    \/ \E i \in 1..Len(s) :
           /\ CurrencyAt(s, i) > 0
           /\ \E j \in CurrencyAt(s, i)..Len(s) :
                  CurrencyAt(s, j) > 0 /\ OneLine(s, CurrencyAt(s, i), j - 1)
    \/ \E i \in 1..Len(s) :
           /\ Ch(s, i) = "%"
           /\ \E j \in (i + 1)..Len(s) : Ch(s, j) = "%" /\ OneLine(s, i + 1, j - 1)

\* ^(sl\.?\s*no\.?|s\.?\s*no\.?|sr\.?\s*no\.?)$
MatchSerialNumber(s) ==
    \E w \in {"sl", "s", "sr"} :
        /\ StartsWith(s, w)
        /\ LET p == IF Ch(s, Len(w) + 1) = "." THEN Len(w) + 2 ELSE Len(w) + 1
               n == RunEnd(s, p, Spaces)
           IN  /\ StartsAt(s, n, "no")
               /\ n + 2 = Len(s) + 1 \/ (n + 2 = Len(s) /\ Ch(s, n + 2) = ".")

ColumnHeaderWords ==
    {"amount", "qty", "quantity", "rate", "price", "total", "subtotal",
     "date", "time", "duration", "period", "yes", "no", "y", "n",
     "name", "description", "item", "product", "service"}

TableBorderChars == {"-", "=", "_", "|", "+"} \cup Spaces

CellWords == {"yes", "no", "na", "nil", "null", "none"}

\* ^\d+[.,]\d+$
MatchDecimal(w) ==
    LET d == RunEnd(w, 1, Digits)
    IN  d > 1 /\ Ch(w, d) \in {".", ","} /\ d < Len(w) /\ RunEnd(w, d + 1, Digits) = Len(w) + 1

\* extract_text.py 106-109: a word that looks like a table cell
IsCellWord(w) ==
    /\ Len(w) <= 10
    /\ \/ IsDigit(w)
       \/ MatchDecimal(w)
       \/ Len(w) <= 5 /\ AllIn(w, 1, Len(w), UpperLetters)
       \/ Lower(w) \in CellWords

\* extract_text.py 70-131
is_tabular_data(text) ==
    LET text_clean == Strip(text)
        text_lower == Lower(text_clean)
        words      == Split(text_clean)
    IN  \/ SearchNumberRow(text_clean)
        \/ SearchCurrencyOrPercent(text_clean)
        \/ MatchSerialNumber(text_lower)
        \/ text_lower \in ColumnHeaderWords
        \/ Len(text_clean) >= 4 /\ AllIn(text_clean, 1, Len(text_clean), TableBorderChars)
        \/ Len(words) <= 3 /\ \A k \in 1..Len(words) : IsCellWord(words[k])
        \/ MatchPathwayHeader(text_lower)

DescriptiveWords == {"application", "form", "request", "proposal"}

FieldStarts == {"name", "address", "phone", "email", "date", "time"}

InstructionStarts == {"enter", "select", "choose", "tick", "mark", "fill",
                      "note", "remark", "comment", "instruction"}

NumberedFieldWords == {"amount", "advance", "required", "grant", "ltc"}

\* .*\(.*\)$ with open = "(" and close = ")", and .*\[.*\]$
MatchBracketed(s, open, close) ==
    EndsWith(s, close) /\ OneLine(s, 1, Len(s)) /\ Contains(SubSeq(s, 1, Len(s) - 1), open)

\* ^\d+\.\s*(amount|advance|required|grant|ltc).*
MatchNumberedField(s) ==
    LET d == RunEnd(s, 1, Digits)
    IN  /\ d > 1 /\ Ch(s, d) = "."
        /\ \E w \in NumberedFieldWords : StartsAt(s, RunEnd(s, d + 1, Spaces), w)

\* extract_text.py 134-166
is_form_field_or_label(text) ==
    LET text_clean == Lower(Strip(text))
    IN  IF Len(text_clean) > 20 /\ \E w \in DescriptiveWords : Contains(text_clean, w)
        THEN FALSE
        ELSE \/ EndsWith(text_clean, ":") /\ OneLine(text_clean, 1, Len(text_clean))
             \/ LET d == RunEnd(text_clean, 1, Digits)
                IN  d > 1 /\ d = Len(text_clean) /\ Ch(text_clean, d) = "."
             \/ \E w \in FieldStarts :
                    StartsWith(text_clean, w) /\ OneLine(text_clean, 1, Len(text_clean))
             \/ \E w \in InstructionStarts : StartsWith(text_clean, w)
             \/ MatchBracketed(text_clean, "(", ")")
             \/ MatchBracketed(text_clean, "[", "]")
             \/ StartsWith(text_clean, "amount")
                    /\ Contains(SubSeq(FirstLine(text_clean), 7, Len(FirstLine(text_clean))), "rs")
             \/ StartsWith(text_clean, "rs")
                    /\ Contains(SubSeq(FirstLine(text_clean), 3, Len(FirstLine(text_clean))), "amount")
             \/ text_clean = "relationship"
             \/ MatchNumberedField(text_clean)
             \/ MatchInOrder(text_clean, "advance", "required")
             \/ MatchInOrder(text_clean, "grant", "ltc")

\* the filter with the patterns of lines 17-27 matched against the text as it is
\* written, not against its lower-case form
NonMeaningfulCaseSensitive(text) ==
    LET text_clean == Strip(text)
        text_lower == Lower(text_clean)
    IN  \/ Len(text_clean) <= 3
        \/ NonHeadingPattern(text_clean)
        \/ WebAddressPattern(text_clean)
        \/ LET d == RunEnd(text_clean, 1, Digits)
           IN  d > 1 /\ (d = Len(text_clean) + 1 \/ (d = Len(text_clean) /\ Ch(text_clean, d) = "."))
        \/ AllIn(text_clean, 1, Len(text_clean), {".", "-"} \cup Spaces)
        \/ Len(text_clean) <= 5 /\ text_lower \in ShortFieldWords
        \/ Contains(text_clean, ".....")
        \/ MatchContentsEntry(text_clean)
        \/ \E p \in PlaceholderPhrases : Contains(text_lower, p)
        \/ is_tabular_data(text_clean)
        \/ is_form_field_or_label(text_clean)

\* extract_text.py 6-67
is_non_meaningful_heading(text) ==
    LET text_clean == Strip(text)
        text_lower == Lower(text_clean)
    IN  \/ Len(text_clean) <= 3
        \/ NonHeadingPattern(text_lower)
        \/ WebAddressPattern(text_lower)
        \/ LET d == RunEnd(text_clean, 1, Digits)
           IN  d > 1 /\ (d = Len(text_clean) + 1 \/ (d = Len(text_clean) /\ Ch(text_clean, d) = "."))
        \/ AllIn(text_clean, 1, Len(text_clean), {".", "-"} \cup Spaces)
        \/ Len(text_clean) <= 5 /\ text_lower \in ShortFieldWords
        \/ Contains(text_clean, ".....")
        \/ MatchContentsEntry(text_clean)
        \/ \E p \in PlaceholderPhrases : Contains(text_lower, p)
        \/ is_tabular_data(text_clean)
        \/ is_form_field_or_label(text_clean)

\* extract_text.py 169-216
is_likely_heading(text) ==
    LET text_clean == Strip(text)
        bare       == SelectSeq([k \in 1..Len(text_clean) |-> Ch(text_clean, k)],
                                LAMBDA c : c \notin {".", " "})
    IN  /\ Len(text_clean) >= 3 /\ Len(text_clean) <= 200
        /\ ~(bare # <<>> /\ \A k \in 1..Len(bare) : bare[k] \in Digits)
        /\ ~(Len(Split(text_clean)) = 1 /\ Len(text_clean) <= 2)
        /\ ~NonHeadingPattern(Lower(text_clean))

(***************************************************************************)
(* extract_text.py: the layout a page is read as.  A page is a record      *)
(* [height, blocks, images]; a block [type, bbox, lines] (type 0 is text); *)
(* a line [bbox, spans]; a span [text, size, flags, font, bbox], flags and *)
(* font being optional; a bbox is <<x0, y0, x1, y1>>; images holds what    *)
(* page.get_image_bbox returns for each image of the page.                 *)
(***************************************************************************)
\* round(x, 1) on hundredths; a tie goes to the even tenth, which is what Python
\* does on the ties a float holds exactly (x.25, x.75)
Round1(x) ==
    LET r == x % 10
    IN  IF r < 5 THEN x - r
        ELSE IF r > 5 THEN x - r + 10
        ELSE IF ((x - r) \div 10) % 2 = 0 THEN x - r ELSE x - r + 10

SpanSize(span) == Round1(span.size)

\* span.get('flags', 0) and span.get('font', '')
SpanFlags(span) == IF "flags" \in DOMAIN span THEN span.flags ELSE 0

SpanFont(span) == IF "font" \in DOMAIN span THEN span.font ELSE ""

\* (flags & 2) or ('Bold' in font)
SpanBold(span) == (SpanFlags(span) \div 2) % 2 = 1 \/ Contains(SpanFont(span), "Bold")

\* (flags & 1) or ('Italic' in font or 'Oblique' in font)
SpanItalic(span) ==
    \/ SpanFlags(span) % 2 = 1
    \/ Contains(SpanFont(span), "Italic")
    \/ Contains(SpanFont(span), "Oblique")

RECURSIVE Concat(_)
\* the concatenation of a sequence of sequences
Concat(seqs) == IF seqs = <<>> THEN <<>> ELSE Head(seqs) \o Concat(Tail(seqs))

RECURSIVE Sum(_)
Sum(seq) == IF seq = <<>> THEN 0 ELSE Head(seq) + Sum(Tail(seq))

\* the spans of a block, line after line
BlockSpans(block) == Concat([l \in 1..Len(block.lines) |-> block.lines[l].spans])

Sizes(spans) == [k \in 1..Len(spans) |-> SpanSize(spans[k])]

Texts(spans) == [k \in 1..Len(spans) |-> spans[k].text]

AnyBold(spans) == \E k \in 1..Len(spans) : SpanBold(spans[k])

AnyItalic(spans) == \E k \in 1..Len(spans) : SpanItalic(spans[k])

Occurrences(seq, x) == Cardinality({k \in 1..Len(seq) : seq[k] = x})

NumDistinct(seq) == Cardinality({seq[k] : k \in 1..Len(seq)})

\* Counter(seq).most_common(1)[0][0]: the most frequent value, the one met first
\* among equally frequent ones
MostCommon(seq) ==
    seq[CHOOSE k \in 1..Len(seq) :
            /\ \A j \in 1..Len(seq) : Occurrences(seq, seq[j]) <= Occurrences(seq, seq[k])
            /\ \A j \in 1..(k - 1) : Occurrences(seq, seq[j]) < Occurrences(seq, seq[k])]

\* Counter(seq).most_common(2)[1][0]
SecondMostCommon(seq) == MostCommon(SelectSeq(seq, LAMBDA x : x # MostCommon(seq)))

MinOf(seq) == CHOOSE m \in {seq[k] : k \in 1..Len(seq)} : \A k \in 1..Len(seq) : m <= seq[k]

\* sum(sizes) / len(sizes); the sizes averaged in the model are tenths whose mean
\* is a whole number of hundredths
Mean(sizes) == Sum(sizes) \div Len(sizes)

RECURSIVE ReplaceDoubleSpaces(_)
\* str.replace("  ", " ")
ReplaceDoubleSpaces(s) ==
    IF Len(s) < 2 THEN s
    ELSE IF StartsWith(s, "  ") THEN " " \o ReplaceDoubleSpaces(SubSeq(s, 3, Len(s)))
    ELSE Head(s) \o ReplaceDoubleSpaces(Tail(s))

\* re.sub(r'\s+', ' ', s)
NormalizeSpaces(s) ==
    LET words == Split(s)
        lead  == IF s # "" /\ Ch(s, 1) \in Spaces THEN " " ELSE ""
        trail == IF words # <<>> /\ Ch(s, Len(s)) \in Spaces THEN " " ELSE ""
    IN  lead \o Join(words, " ") \o trail

RECURSIVE Unique(_)
\* the first occurrences of the elements of a sequence, in order
Unique(seq) ==
    IF seq = <<>> THEN <<>>
    ELSE LET rest == Unique(SubSeq(seq, 1, Len(seq) - 1))
             last == seq[Len(seq)]
         IN  IF \E k \in 1..Len(rest) : rest[k] = last THEN rest ELSE Append(rest, last)

RECURSIVE DropRepeats(_)
\* extract_text.py 626-630: a word equal to the word kept before it is dropped
DropRepeats(words) ==
    IF Len(words) <= 1 THEN words
    ELSE LET rest == DropRepeats(SubSeq(words, 1, Len(words) - 1))
             last == words[Len(words)]
         IN  IF rest[Len(rest)] = last THEN rest ELSE Append(rest, last)

\* the buffer added around an image, extract_text.py 243
ImageBuffer == 1000

\* extract_text.py 239-264 for one image rectangle; an all-zero rectangle is falsy
ImageCovers(img, bbox) ==
    LET x1 == img[1] - ImageBuffer
        y1 == img[2] - ImageBuffer
        x2 == img[3] + ImageBuffer
        y2 == img[4] + ImageBuffer
        lo(a, b) == IF a < b THEN a ELSE b
        hi(a, b) == IF a > b THEN a ELSE b
        overlap_x == hi(0, lo(bbox[3], x2) - hi(bbox[1], x1))
        overlap_y == hi(0, lo(bbox[4], y2) - hi(bbox[2], y1))
        text_area == (bbox[3] - bbox[1]) * (bbox[4] - bbox[2])
    IN  /\ img # <<0, 0, 0, 0>>
        /\ \/ /\ 2 * x1 <= bbox[1] + bbox[3] /\ bbox[1] + bbox[3] <= 2 * x2
              /\ 2 * y1 <= bbox[2] + bbox[4] /\ bbox[2] + bbox[4] <= 2 * y2
           \/ /\ overlap_x > 0 /\ overlap_y > 0 /\ text_area > 0
              /\ 10 * overlap_x * overlap_y > 3 * text_area

\* extract_text.py 219-272
is_text_from_image_region(bbox, page) ==
    \E k \in 1..Len(page.images) : ImageCovers(page.images[k], bbox)

(***************************************************************************)
(* extract_text.py: extract_pdf_text_with_styles, pass by pass.  A block   *)
(* is named by its index in the page's block list and a line by its index  *)
(* in its block; ids gives the object identity id() returns for the block  *)
(* b, ids[<<b, 0>>], and for its line l, ids[<<b, l>>].                    *)
(***************************************************************************)
\* extract_text.py 284-285, 296: block_y < page_height * 0.1 or block_y > page_height * 0.9
InHeaderOrFooterInclusive(block, page) ==
    \/ 10 * block.bbox[2] <= page.height
    \/ 10 * block.bbox[2] >= 9 * page.height

InHeaderOrFooter(block, page) ==
    \/ 10 * block.bbox[2] < page.height
    \/ 10 * block.bbox[2] > 9 * page.height

\* extract_text.py 298-317: a header/footer block that may hold the document title
LooksLikeTitle(block) ==
    LET spans      == BlockSpans(block)
        block_text == Strip(Join(Texts(spans), ""))
    IN  /\ spans # <<>> /\ block_text # ""
        /\ Sum(Sizes(spans)) >= 1000 * Len(spans)
        /\ Len(block_text) >= 5 /\ Len(block_text) <= 200
        /\ ~IsDigit(block_text)

\* extract_text.py 288-324: the blocks of potential_title_blocks, in page order
PotentialTitleBlocks(page, page_num) ==
    IF page_num # 0 THEN <<>>
    ELSE SelectSeq([b \in 1..Len(page.blocks) |-> b],
                   LAMBDA b : /\ page.blocks[b].type = 0
                              /\ InHeaderOrFooter(page.blocks[b], page)
                              /\ LooksLikeTitle(page.blocks[b]))

\* every text block has its lines collected, the header and footer included
IsRetainedAnywhere(page, titles, b) == page.blocks[b].type = 0

\* extract_text.py 327-335: the text blocks whose lines are collected
IsRetained(page, titles, b) ==
    /\ page.blocks[b].type = 0
    /\ ~InHeaderOrFooter(page.blocks[b], page) \/ \E k \in 1..Len(titles) : titles[k] = b

\* extract_text.py 327-347: all_lines_data, one entry per line of a retained block
CollectLines(page, titles) ==
    Concat([b \in 1..Len(page.blocks) |->
              IF IsRetained(page, titles, b)
              THEN [l \in 1..Len(page.blocks[b].lines) |->
                       [block |-> b, line |-> l,
                        y_pos |-> page.blocks[b].lines[l].bbox[2]]]
              ELSE <<>>])

LineOf(page, line_data) == page.blocks[line_data.block].lines[line_data.line]

\* extract_text.py 339-340: font_sizes
CollectSizes(page, lines) ==
    Concat([k \in 1..Len(lines) |-> Sizes(LineOf(page, lines[k]).spans)])

\* extract_text.py 303-306: line['spans'], span['size'] and span['text'] are read
\* of every line of a header or footer text block of page 0; a missing key raises
\* KeyError
TitleScanRaises(page, page_num) ==
    /\ page_num = 0
    /\ \E b \in 1..Len(page.blocks) :
           /\ page.blocks[b].type = 0
           /\ InHeaderOrFooter(page.blocks[b], page)
           /\ \E l \in 1..Len(page.blocks[b].lines) :
                  LET line == page.blocks[b].lines[l]
                  IN  \/ "spans" \notin DOMAIN line
                      \/ \E k \in 1..Len(line.spans) :
                             ~({"size", "text"} \subseteq DOMAIN line.spans[k])

\* extract_text.py 336-347: line['spans'], span['size'] and line['bbox'] are read
\* of every line of a retained block; a missing key raises KeyError
CollectRaises(page, titles) ==
    \E b \in 1..Len(page.blocks) :
        /\ IsRetained(page, titles, b)
        /\ \E l \in 1..Len(page.blocks[b].lines) :
               LET line == page.blocks[b].lines[l]
               IN  \/ "spans" \notin DOMAIN line
                   \/ \E k \in 1..Len(line.spans) : "size" \notin DOMAIN line.spans[k]
                   \/ "bbox" \notin DOMAIN line

\* the test of line 357 with > in the place of >=
BodyTextSizeAbove20(sizes) ==
    IF MostCommon(sizes) > 2000 /\ NumDistinct(sizes) > 1
    THEN SecondMostCommon(sizes)
    ELSE MostCommon(sizes)

\* extract_text.py 352-360
BodyTextSize(sizes) ==
    IF MostCommon(sizes) >= 2000 /\ NumDistinct(sizes) > 1
    THEN SecondMostCommon(sizes)
    ELSE MostCommon(sizes)

\* extract_text.py 379-400: block_is_heading
BlockIsHeading(block, page_num, body) ==
    LET sizes == Sizes(BlockSpans(block))
    IN  /\ sizes # <<>>
        /\ NumDistinct(sizes) <= 3
        /\ \/ /\ 2 * Sum(sizes) > 3 * body * Len(sizes)
              /\ 2 * MostCommon(sizes) >= 3 * body
           \/ page_num = 0 /\ Sum(sizes) > 2 * body * Len(sizes)

\* extract_text.py 404-419: the test of line 413 stands after the loop over the
\* spans, so it is made once, on the last span of the block
BlockHeadingText(block, body) ==
    LET spans == BlockSpans(block)
        sizes == Sizes(spans)
        significant == SelectSeq(sizes, LAMBDA s : s >= body)
        min_significant_size == IF significant # <<>> THEN MinOf(significant)
                                ELSE MostCommon(sizes)
        last  == spans[Len(spans)]
        parts == IF 10 * SpanSize(last) >= 8 * min_significant_size \/ SpanBold(last)
                 THEN <<last.text>> ELSE <<>>
    IN  NormalizeSpaces(ReplaceDoubleSpaces(Strip(Join(parts, ""))))

\* the spans of the block's most common size
MainSpans(block) ==
    LET spans == BlockSpans(block)
    IN  SelectSeq(spans, LAMBDA sp : SpanSize(sp) = MostCommon(Sizes(spans)))

\* extract_text.py 428-434 and 544-550
BlockHeading(block, text, page_num) ==
    [text      |-> text,
     font_size |-> MostCommon(Sizes(BlockSpans(block))),
     bold      |-> AnyBold(MainSpans(block)),
     italic    |-> AnyItalic(MainSpans(block)),
     page      |-> page_num]

\* extract_text.py 372-436 for one block: the heading the block classifier emits
\* for it, as a list of no or one heading
ClassifyBlock(page, page_num, body, b) ==
    LET block == page.blocks[b]
        heading_text == BlockHeadingText(block, body)
    IN  IF /\ BlockIsHeading(block, page_num, body)
           /\ Len(heading_text) > 3
           /\ ~is_non_meaningful_heading(heading_text)
           /\ ~is_text_from_image_region(block.bbox, page)
           /\ is_likely_heading(heading_text)
        THEN <<BlockHeading(block, heading_text, page_num)>>
        ELSE <<>>

\* where a heading came from: not a value of the code, but a record of its run
\* (the pass, the page, the block, and the <<block, line>> pairs it was made of)
Origin(pass, page_num, b, ls) == [pass |-> pass, page |-> page_num, block |-> b, lines |-> ls]

RECURSIVE BlockPass(_, _, _, _, _, _)
\* extract_text.py 363-436: the loop over all_lines_data from entry k on; acc is
\* [headings, origin, processed_blocks]
BlockPass(page, page_num, ids, body, lines, acc) ==
    IF lines = <<>> THEN acc
    ELSE IF ids[<<Head(lines).block, 0>>] \in acc.processed_blocks
    THEN BlockPass(page, page_num, ids, body, Tail(lines), acc)
    ELSE IF ClassifyBlock(page, page_num, body, Head(lines).block) = <<>>
    THEN BlockPass(page, page_num, ids, body, Tail(lines), acc)
    ELSE LET b == Head(lines).block
         IN  BlockPass(page, page_num, ids, body, Tail(lines),
                 [headings         |-> acc.headings \o ClassifyBlock(page, page_num, body, b),
                  origin           |-> Append(acc.origin, Origin("block", page_num, b, {})),
                  processed_blocks |-> acc.processed_blocks \cup {ids[<<b, 0>>]}])

\* extract_text.py 458-465: size >= 15 and bold, or size >= 18
LargeBoldSpans(line) ==
    SelectSeq(line.spans, LAMBDA sp : \/ SpanSize(sp) >= 1500 /\ SpanBold(sp)
                                     \/ SpanSize(sp) >= 1800)

\* the scan of one line without the noise filter of line 472
ScanLineUnfiltered(line, page_num) ==
    LET large == LargeBoldSpans(line)
        heading_text == NormalizeSpaces(Strip(Join(Texts(large), "")))
    IN  IF /\ large # <<>>
           /\ Len(heading_text) > 3
           /\ is_likely_heading(heading_text)
        THEN << [text      |-> heading_text,
                 font_size |-> Mean(Sizes(large)),
                 bold      |-> TRUE,
                 italic    |-> AnyItalic(large),
                 page      |-> page_num] >>
        ELSE <<>>

\* extract_text.py 455-484 for one line: no or one heading
ScanLine(line, page_num) ==
    LET large == LargeBoldSpans(line)
        heading_text == NormalizeSpaces(Strip(Join(Texts(large), "")))
    IN  IF /\ large # <<>>
           /\ Len(heading_text) > 3
           /\ ~is_non_meaningful_heading(heading_text)
           /\ is_likely_heading(heading_text)
        THEN << [text      |-> heading_text,
                 font_size |-> Mean(Sizes(large)),
                 bold      |-> TRUE,
                 italic    |-> AnyItalic(large),
                 page      |-> page_num] >>
        ELSE <<>>

RECURSIVE ScanBlockLines(_, _, _, _, _, _)
\* extract_text.py 449-485: the lines of block b from line l on; acc is
\* [headings, origin, processed_lines]
ScanBlockLines(page, page_num, ids, b, l, acc) ==
    IF l > Len(page.blocks[b].lines) THEN acc
    ELSE IF ids[<<b, l>>] \in acc.processed_lines
    THEN ScanBlockLines(page, page_num, ids, b, l + 1, acc)
    ELSE IF ScanLine(page.blocks[b].lines[l], page_num) = <<>>
    THEN ScanBlockLines(page, page_num, ids, b, l + 1, acc)
    ELSE ScanBlockLines(page, page_num, ids, b, l + 1,
             [headings        |-> acc.headings \o ScanLine(page.blocks[b].lines[l], page_num),
              origin          |-> Append(acc.origin, Origin("mixed", page_num, b, {<<b, l>>})),
              processed_lines |-> acc.processed_lines \cup {ids[<<b, l>>]}])

RECURSIVE MixedPass(_, _, _, _, _, _)
\* extract_text.py 439-485: the loop over all_lines_data
MixedPass(page, page_num, ids, processed_blocks, lines, acc) ==
    IF lines = <<>> THEN acc
    ELSE IF ids[<<Head(lines).block, 0>>] \in processed_blocks
    THEN MixedPass(page, page_num, ids, processed_blocks, Tail(lines), acc)
    ELSE MixedPass(page, page_num, ids, processed_blocks, Tail(lines),
             ScanBlockLines(page, page_num, ids, Head(lines).block, 1, acc))

\* extract_text.py 509-526: the texts of the spans of the main size, each once
TitleRegionText(block) ==
    ReplaceDoubleSpaces(Strip(Join(Unique(Texts(MainSpans(block))), " ")))

\* ^\d+\.
MatchNumberDot(t) == LET d == RunEnd(t, 1, Digits) IN d > 1 /\ Ch(t, d) = "."

\* extract_text.py 532-536: is_potential_title
IsPotentialTitleText(block, text, page_num) ==
    /\ page_num = 0
    /\ MostCommon(Sizes(BlockSpans(block))) >= 1000
    /\ Len(text) > 10
    /\ ~MatchNumberDot(text)
    /\ Contains(Lower(text), "application") \/ Contains(Lower(text), "form")

\* extract_text.py 539-541: is_normal_heading
IsNormalHeading(block, text, page) ==
    /\ ~is_non_meaningful_heading(text)
    /\ ~is_text_from_image_region(block.bbox, page)
    /\ is_likely_heading(text)

\* extract_text.py 496-551 for one potential title block: no or one heading
TitleRegionHeading(page, page_num, b) ==
    LET block == page.blocks[b]
        heading_text == TitleRegionText(block)
    IN  IF /\ BlockSpans(block) # <<>>
           /\ Len(heading_text) > 3
           /\ \/ IsPotentialTitleText(block, heading_text, page_num)
              \/ IsNormalHeading(block, heading_text, page)
        THEN <<BlockHeading(block, heading_text, page_num)>>
        ELSE <<>>

RECURSIVE TitleRegionPass(_, _, _, _, _)
\* extract_text.py 488-551: the loop over potential_title_blocks; acc is
\* [headings, origin, processed_blocks]
TitleRegionPass(page, page_num, ids, titles, acc) ==
    IF titles = <<>> THEN acc
    ELSE IF ids[<<Head(titles), 0>>] \in acc.processed_blocks
    THEN TitleRegionPass(page, page_num, ids, Tail(titles), acc)
    ELSE IF TitleRegionHeading(page, page_num, Head(titles)) = <<>>
    THEN TitleRegionPass(page, page_num, ids, Tail(titles), acc)
    ELSE LET b == Head(titles)
         IN  TitleRegionPass(page, page_num, ids, Tail(titles),
                 [headings         |-> acc.headings \o TitleRegionHeading(page, page_num, b),
                  origin           |-> Append(acc.origin, Origin("title", page_num, b, {})),
                  processed_blocks |-> acc.processed_blocks \cup {ids[<<b, 0>>]}])

RECURSIVE InsertByY(_, _)
InsertByY(sorted, x) ==
    IF sorted = <<>> THEN <<x>>
    ELSE IF sorted[Len(sorted)].y_pos <= x.y_pos THEN Append(sorted, x)
    ELSE Append(InsertByY(SubSeq(sorted, 1, Len(sorted) - 1), x), sorted[Len(sorted)])

RECURSIVE SortByY(_)
\* extract_text.py 556: list.sort(key=y_pos), which keeps the order of equal keys
SortByY(lines) ==
    IF lines = <<>> THEN <<>>
    ELSE InsertByY(SortByY(SubSeq(lines, 1, Len(lines) - 1)), lines[Len(lines)])

\* extract_text.py 584
TitleKeywords ==
    {"application", "form", "report", "document", "manual", "guide", "proposal", "rfp",
     "request", "plan", "business", "library", "digital", "ontario", "summary",
     "background", "approach", "evaluation", "appendix", "phase", "milestone",
     "timeline", "access", "guidance", "training", "support", "funding", "overview",
     "foundation", "extension", "equitable", "shared", "governance", "purchasing",
     "licensing", "technological", "preamble", "membership", "appointment",
     "accountability", "communication", "financial", "administrative", "policies"}

\* extract_text.py 587
SectionNames ==
    {"revision history", "table of contents", "acknowledgements", "introduction",
     "overview", "references", "summary", "background", "timeline", "milestones",
     "approach", "evaluation", "appendix"}

\* extract_text.py 588
SectionStarts ==
    {"revision", "table", "acknowledgement", "introduction", "overview", "reference",
     "summary", "background", "timeline", "milestone", "approach", "evaluation",
     "appendix"}

\* extract_text.py 602
BoldKeywords ==
    {"timeline", "access", "guidance", "training", "support", "funding", "equitable",
     "shared", "local", "provincial", "technological", "preamble", "terms",
     "membership", "appointment", "chair", "meetings", "accountability", "financial"}

\* ^\d+\.?\s+[A-Z]
MatchNumberedSection(t) ==
    LET d == RunEnd(t, 1, Digits)
        p == IF Ch(t, d) = "." THEN d + 1 ELSE d
        a == RunEnd(t, p, Spaces)
    IN  d > 1 /\ a > p /\ Ch(t, a) \in UpperLetters

\* ^\d+\.\d+\.?\s+[A-Z]
MatchSubSection(t) ==
    LET d == RunEnd(t, 1, Digits)
        e == RunEnd(t, d + 1, Digits)
        p == IF Ch(t, e) = "." THEN e + 1 ELSE e
        a == RunEnd(t, p, Spaces)
    IN  d > 1 /\ Ch(t, d) = "." /\ e > d + 1 /\ a > p /\ Ch(t, a) \in UpperLetters

\* ^(for each|what could|phase [IVX]+)
MatchRfpStart(s) ==
    \/ StartsWith(s, "for each")
    \/ StartsWith(s, "what could")
    \/ StartsWith(s, "phase ") /\ Ch(s, 7) \in {"I", "V", "X"}

\* extract_text.py 584-591, on the text of the whole line
LooksStructured(line_text) ==
    LET lower == Lower(line_text)
    IN  \/ \E w \in TitleKeywords : Contains(lower, w)
        \/ MatchNumberedSection(line_text)
        \/ MatchSubSection(line_text)
        \/ lower \in SectionNames
        \/ \E w \in SectionStarts : StartsWith(lower, w)
        \/ EndsWith(line_text, ":") /\ Len(line_text) > 3
        \/ MatchRfpStart(lower)
        \/ /\ Len(Split(line_text)) >= 2
           /\ \E k \in 1..Len(line_text) : Ch(line_text, k) \in UpperLetters

\* extract_text.py 597-602, on the text of the whole line
LooksLikeBoldHeading(line_text) ==
    LET lower == Lower(line_text)
    IN  /\ ~IsDigit(line_text)
        /\ ~MatchPrefixNumber(lower, {"page", "pg", "p."}, 0)
        /\ ~MatchPrefixNumber(lower, {"fig", "figure", "table", "tab"}, 0)
        /\ Len(Split(line_text)) <= 10
        /\ EndsWith(line_text, ":") \/ \E w \in BoldKeywords : Contains(lower, w)

\* extract_text.py 570-603: is_heading.  The branches are tried in order and the
\* first whose size or style test holds decides.
LineIsHeading(spans, body) ==
    LET first_size   == SpanSize(spans[1])
        first_bold   == SpanBold(spans[1])
        first_italic == SpanItalic(spans[1])
        line_text    == Strip(Join(Texts(spans), " "))
    IN  IF 10 * first_size > 14 * body THEN TRUE
        ELSE IF (first_bold \/ first_italic) /\ 10 * first_size >= 12 * body THEN TRUE
        ELSE IF 10 * first_size >= 11 * body THEN LooksStructured(line_text)
        ELSE IF first_bold /\ Len(line_text) > 5 THEN LooksLikeBoldHeading(line_text)
        ELSE FALSE

\* extract_text.py 611-619: heading_spans
HeadingSpans(spans, body) ==
    SelectSeq(spans, LAMBDA sp : /\ SpanSize(sp) = SpanSize(spans[1])
                                /\ \/ SpanSize(spans[1]) > body
                                   \/ SpanBold(sp) \/ SpanItalic(sp))

\* extract_text.py 605-644 for a line that is a heading: no or one candidate
LineCandidate(page, page_num, body, line_data) ==
    LET spans == LineOf(page, line_data).spans
        heading_spans == HeadingSpans(spans, body)
        heading_text  == Join(DropRepeats(Split(Strip(Join(Texts(heading_spans), " ")))), " ")
    IN  IF /\ heading_spans # <<>>
           /\ heading_text # ""
           /\ ~is_non_meaningful_heading(heading_text)
           /\ is_likely_heading(heading_text)
           /\ ~is_text_from_image_region(spans[1].bbox, page)
        THEN << [text      |-> heading_text,
                 font_size |-> SpanSize(spans[1]),
                 bold      |-> AnyBold(heading_spans),
                 italic    |-> AnyItalic(heading_spans),
                 page      |-> page_num,
                 y_pos     |-> line_data.y_pos] >>
        ELSE <<>>

\* the value None in page_headings; a candidate is a list of one heading
None == <<>>

RECURSIVE LinePassAllBlocks(_, _, _, _, _, _, _)
\* the line pass without the test of line 560: the lines of consumed blocks are
\* looked at as well
LinePassAllBlocks(page, page_num, ids, body, processed_blocks, lines, acc) ==
    IF lines = <<>> THEN acc
    ELSE IF LineOf(page, Head(lines)).spans = <<>>
    THEN LinePassAllBlocks(page, page_num, ids, body, processed_blocks, Tail(lines), acc)
    ELSE IF ~LineIsHeading(LineOf(page, Head(lines)).spans, body)
    THEN LinePassAllBlocks(page, page_num, ids, body, processed_blocks, Tail(lines),
             [page_headings |-> Append(acc.page_headings, None),
              origin        |-> Append(acc.origin, None)])
    ELSE IF LineCandidate(page, page_num, body, Head(lines)) = <<>>
    THEN LinePassAllBlocks(page, page_num, ids, body, processed_blocks, Tail(lines), acc)
    ELSE LinePassAllBlocks(page, page_num, ids, body, processed_blocks, Tail(lines),
             [page_headings |-> Append(acc.page_headings,
                                       LineCandidate(page, page_num, body, Head(lines))),
              origin        |-> Append(acc.origin,
                                       <<Origin("line", page_num, Head(lines).block,
                                                {<<Head(lines).block, Head(lines).line>>})>>)])

RECURSIVE LinePass(_, _, _, _, _, _, _)
\* extract_text.py 559-647: the loop over the sorted all_lines_data; acc is
\* [page_headings, origin].  A line of a consumed block and a line without spans
\* add nothing, a line that is not a heading adds None, a line that is a heading
\* adds its candidate if it has one.
LinePass(page, page_num, ids, body, processed_blocks, lines, acc) ==
    IF lines = <<>> THEN acc
    ELSE IF \/ ids[<<Head(lines).block, 0>>] \in processed_blocks
            \/ LineOf(page, Head(lines)).spans = <<>>
    THEN LinePass(page, page_num, ids, body, processed_blocks, Tail(lines), acc)
    ELSE IF ~LineIsHeading(LineOf(page, Head(lines)).spans, body)
    THEN LinePass(page, page_num, ids, body, processed_blocks, Tail(lines),
             [page_headings |-> Append(acc.page_headings, None),
              origin        |-> Append(acc.origin, None)])
    ELSE IF LineCandidate(page, page_num, body, Head(lines)) = <<>>
    THEN LinePass(page, page_num, ids, body, processed_blocks, Tail(lines), acc)
    ELSE LinePass(page, page_num, ids, body, processed_blocks, Tail(lines),
             [page_headings |-> Append(acc.page_headings,
                                       LineCandidate(page, page_num, body, Head(lines))),
              origin        |-> Append(acc.origin,
                                       <<Origin("line", page_num, Head(lines).block,
                                                {<<Head(lines).block, Head(lines).line>>})>>)])

\* the longest text a merge may produce, extract_text.py 668
MaxMergedLength == 100

\* extract_text.py 662-668, the merge test with the length limit exclusive
CanMergeBelowLimit(current, next) ==
    /\ next.font_size = current.font_size
    /\ next.bold = current.bold
    /\ next.italic = current.italic
    /\ ~EndsWith(current.text, ".")
    /\ ~EndsWith(current.text, "?")
    /\ ~EndsWith(current.text, "!")
    /\ Len(current.text \o " " \o next.text) < MaxMergedLength

\* extract_text.py 662-668: may the candidate next be merged into the chain current
CanMerge(current, next) ==
    /\ next.font_size = current.font_size
    /\ next.bold = current.bold
    /\ next.italic = current.italic
    /\ ~EndsWith(current.text, ".")
    /\ ~EndsWith(current.text, "?")
    /\ ~EndsWith(current.text, "!")
    /\ Len(current.text \o " " \o next.text) <= MaxMergedLength

\* extract_text.py 673: the heading without its y_pos
FinalHeading(h) ==
    [text |-> h.text, font_size |-> h.font_size, bold |-> h.bold,
     italic |-> h.italic, page |-> h.page]

(***************************************************************************)
(* State.                                                                  *)
(***************************************************************************)
VARIABLES
    pc,                      \* where the run is
    doc,                     \* the pages of the PDF being processed
    ids,                     \* the object identities of this run
    previous,                \* the [ids, result] of the earlier runs on doc
    page_num,                \* the page being processed
    potential_title_blocks,  \* extract_text.py 288
    all_lines_data,          \* extract_text.py 282
    font_sizes,              \* extract_text.py 281
    body_text_size,          \* extract_text.py 358-360
    processed_blocks,        \* extract_text.py 363: the ids of the consumed blocks
    processed_lines,         \* extract_text.py 439: the ids of the consumed lines
    page_headings,           \* extract_text.py 554: candidates and None
    merge_i,                 \* extract_text.py 651: i
    merge_j,                 \* extract_text.py 659: j
    current_heading,         \* extract_text.py 657: None outside the inner loop
    merged_page_headings,    \* extract_text.py 650
    headings,  \* the heading list: the argument of assign_heading_levels
    origin,    \* for each heading of headings, where it came from
    trail,     \* the origins of page_headings, current_heading, merged_page_headings
    kept,      \* assign_heading_levels' non_title_headings when it returned
    result     \* the structure assign_heading_levels returned

VARIABLES
    filter_text,      \* the string handed to is_non_meaningful_heading
    rejected,         \* what is_non_meaningful_heading returned for it
    main_pc,          \* main.py: where main() is
    input_dir,        \* main.py 27: the state of /app/input
    output_dir,       \* main.py 28: the state of /app/output
    pdf_files,        \* main.py 37
    file_k,           \* main.py 56: the number of files the loop has taken up
    processed_count,  \* main.py 53
    failed_count,     \* main.py 54
    invoked,          \* how often the pipeline was invoked on each file
    exit_status       \* the exit status of the process, <<>> while it runs

page_vars == <<potential_title_blocks, all_lines_data, font_sizes, body_text_size,
               processed_blocks, processed_lines, page_headings>>

merge_vars == <<merge_i, merge_j, current_heading, merged_page_headings, trail>>

filter_vars == <<filter_text, rejected>>

main_vars == <<main_pc, input_dir, output_dir, pdf_files, file_k, processed_count,
               failed_count, invoked, exit_status>>

\* what the pipeline does not touch
other_vars == <<filter_vars, main_vars>>

vars == <<pc, doc, ids, previous, page_num, page_vars, merge_vars,
          headings, origin, kept, result, other_vars>>

\* no string is being filtered
FilterIdle == filter_text = "" /\ rejected = FALSE

\* main() is not running
MainIdle ==
    /\ main_pc = "off"
    /\ input_dir = [exists |-> FALSE, listable |-> FALSE, names |-> <<>>]
    /\ output_dir = "absent"
    /\ pdf_files = <<>>
    /\ file_k = 0
    /\ processed_count = 0
    /\ failed_count = 0
    /\ invoked = <<>>
    /\ exit_status = <<>>

(***************************************************************************)
(* The documents of the model: up to MaxPages pages, each one of a few     *)
(* page layouts.  Spans carry the flags and font names PyMuPDF reports     *)
(* (16 and "-Bold" for bold, 2 and "-Oblique" for italic).                 *)
(***************************************************************************)
MaxPages == 2

MaxRuns == 2

TextSpan(text, size, flags, font, x, y) ==
    [text |-> text, size |-> size, flags |-> flags, font |-> font,
     bbox |-> <<x, y, x + Len(text) * (size \div 2), y + size>>]

TextLine(spans) ==
    [bbox  |-> <<spans[1].bbox[1], spans[1].bbox[2],
                 spans[Len(spans)].bbox[3], spans[1].bbox[4]>>,
     spans |-> spans]

TextBlock(lines) ==
    [type  |-> 0,
     bbox  |-> <<lines[1].bbox[1], lines[1].bbox[2],
                 lines[1].bbox[3], lines[Len(lines)].bbox[4]>>,
     lines |-> lines]

ImageBlock(bbox) == [type |-> 1, bbox |-> bbox]

\* one-line blocks of one span at the left margin
Plain(text, size, y) ==
    TextBlock(<<TextLine(<<TextSpan(text, size, 0, "Helvetica", 7200, y)>>)>>)

Bold(text, size, y) ==
    TextBlock(<<TextLine(<<TextSpan(text, size, 16, "Helvetica-Bold", 7200, y)>>)>>)

Italic(text, size, y) ==
    TextBlock(<<TextLine(<<TextSpan(text, size, 2, "Helvetica-Oblique", 7200, y)>>)>>)

\* a paragraph of seven lines of 11-point text
Paragraph(y) ==
    TextBlock([l \in 1..7 |->
        TextLine(<<TextSpan(IF l % 2 = 1 THEN "The committee met twice during the year"
                            ELSE "and agreed on the work of the next one.",
                            1098, 0, "Helvetica", 7200, y + 1400 * (l - 1))>>)])

Page(blocks, images) == [height |-> 100000, blocks |-> blocks, images |-> images]

\* two adjacent 16-point bold lines over a paragraph
MergePage ==
    Page(<<Bold("Section", 1600, 20000), Bold("Overview", 1600, 23000),
           Paragraph(30000)>>, <<>>)

\* three adjacent bold lines of 50, 50 and 49 characters, and a 9-point running head
LengthPage ==
    Page(<<Bold("Guidelines for the Assessment of Regional Projects", 1400, 20000),
           Bold("Criteria Used in the Review of Submitted Proposals", 1400, 22000),
           Bold("Schedule of the Public Hearings and Consultations", 1400, 24000),
           Paragraph(30000), Plain("Internal draft copy", 900, 3000)>>, <<>>)

\* adjacent 14-point lines that differ in style or end a sentence, and a running
\* head of four characters
StylePage ==
    Page(<<Bold("Cost in %", 1400, 20000), Bold("Share in %", 1400, 22000),
           Bold("Key Findings.", 1400, 24000), Plain("Detailed Notes", 1400, 26000),
           Bold("Next Steps", 1400, 28000), Italic("Open Issues", 1400, 30000),
           Paragraph(40000), Plain("Vol.", 1200, 3000)>>, <<>>)

\* blocks just inside and just outside the top and bottom tenth of the page, and
\* a page number
BoundaryPage ==
    Page(<<Plain("Running Head Text", 1600, 9999), Plain("Chapter Summary", 1600, 10000),
           Paragraph(30000),
           Plain("Closing Remarks", 1600, 90000), Plain("Footer Reference Text", 1600, 90001),
           Plain("12", 1100, 95000)>>,
         <<>>)

\* a label in the header, and a web address set as a heading between two headings
FormPage ==
    Page(<<Plain("Form for you:", 1200, 5000), Paragraph(30000),
           Bold("Project Scope", 1600, 57000), Bold("www.example.com", 1600, 60000),
           Bold("Key Dates", 1600, 63000)>>, <<>>)

\* a 24-point title block, a 16-point bold heading and a paragraph
TitlePage ==
    Page(<<Plain("Annual Report 2024", 2400, 15000), Bold("Introduction", 1600, 20000),
           Paragraph(30000)>>, <<>>)

\* a 24-point running head, and a caption printed over an image
ImagePage ==
    Page(<<Plain("Regional Atlas", 2400, 5000), ImageBlock(<<7200, 20000, 40000, 40000>>),
           Plain("Regional Map Legend", 1600, 30000), Paragraph(50000)>>,
         <<<<7200, 20000, 40000, 40000>>>>)

\* a page without text
EmptyPage == Page(<<>>, <<>>)

\* a page with nothing but a running head and a 10-point label of five characters
HeaderOnlyPage ==
    Page(<<Plain("Quarterly Bulletin", 1600, 5000), Plain("Notes", 1000, 7000)>>, <<>>)

\* a span that carries no size
SizelessSpan(text, x, y) ==
    [text |-> text, flags |-> 0, font |-> "Helvetica",
     bbox |-> <<x, y, x + Len(text) * 600, y + 1200>>]

Sizeless(text, y) == TextBlock(<<TextLine(<<SizelessSpan(text, 7200, y)>>)>>)

\* a span without a size in the header and one in the body, around a heading
MalformedPage ==
    Page(<<Sizeless("Draft copy", 5000), Bold("Scope of Work", 1600, 20000),
           Sizeless("see the annex", 25000), Paragraph(30000)>>, <<>>)

PageLayouts == {MergePage, LengthPage, StylePage, BoundaryPage, FormPage, TitlePage,
                ImagePage, EmptyPage, HeaderOnlyPage, MalformedPage}

Documents == UNION {[1..n -> PageLayouts] : n \in 0..MaxPages}

\* the blocks (<<b, 0>>) and lines (<<b, l>>) a page of the model can hold
Objects ==
    LET blocks == UNION {1..Len(p.blocks) : p \in PageLayouts}
        linesOf(p) == UNION {1..Len(p.blocks[b].lines) :
                               b \in {c \in 1..Len(p.blocks) : p.blocks[c].type = 0}}
    IN  blocks \X ({0} \cup UNION {linesOf(p) : p \in PageLayouts})

\* identities that objects alive at different times may share
AddressLayoutsReused ==
    { [o \in Objects |-> 100 * o[1] + o[2]],
      [o \in Objects |-> o[2]] }

\* extract_text.py 366, 450: id() gives the objects of a page, which are alive
\* together, distinct identities, in no particular order
AddressLayouts ==
    { [o \in Objects |-> 100 * o[1] + o[2]],
      [o \in Objects |-> 10000 - 100 * o[1] - o[2]] }

(***************************************************************************)
(* process_pdf_to_structured_format on a document: the passes of           *)
(* extract_pdf_text_with_styles page by page, then assign_heading_levels.  *)
(***************************************************************************)
NoTrail == [page |-> <<>>, chain |-> None, merged |-> <<>>]

\* the values the variables of a page have before the page is read
FreshPage ==
    /\ potential_title_blocks = <<>>
    /\ all_lines_data = <<>>
    /\ font_sizes = <<>>
    /\ body_text_size = 0
    /\ processed_blocks = {}
    /\ processed_lines = {}
    /\ page_headings = <<>>
    /\ merge_i = 0
    /\ merge_j = 0
    /\ current_heading = None
    /\ merged_page_headings = <<>>
    /\ trail = NoTrail

\* the state at the start of a run: extract_text.py 276-277
StartRun ==
    /\ page_num = 0
    /\ FreshPage
    /\ headings = <<>>
    /\ origin = <<>>
    /\ kept = <<>>
    /\ result = EmptyResult

Init ==
    /\ pc = "page"
    /\ doc \in Documents
    /\ ids \in AddressLayouts
    /\ previous = <<>>
    /\ StartRun
    /\ FilterIdle /\ MainIdle

ThisPage == doc[page_num + 1]

\* extract_text.py 280-324: a page is taken up and its header and footer are
\* searched for potential titles
ScanTitles ==
    /\ pc = "page" /\ page_num < Len(doc)
    /\ IF TitleScanRaises(ThisPage, page_num)
       THEN /\ pc' = "raised"
            /\ UNCHANGED potential_title_blocks
       ELSE /\ pc' = "collect"
            /\ potential_title_blocks' = PotentialTitleBlocks(ThisPage, page_num)
    /\ all_lines_data' = <<>>
    /\ font_sizes' = <<>>
    /\ UNCHANGED <<doc, ids, previous, page_num, body_text_size, processed_blocks,
                   processed_lines, page_headings, merge_vars, headings, origin,
                   kept, result>>
    /\ UNCHANGED other_vars

\* extract_text.py 327-347: the lines of the retained blocks are collected
CollectPage ==
    /\ pc = "collect"
    /\ IF CollectRaises(ThisPage, potential_title_blocks)
       THEN /\ pc' = "raised"
            /\ UNCHANGED <<all_lines_data, font_sizes>>
       ELSE LET lines == CollectLines(ThisPage, potential_title_blocks)
            IN  /\ CollectSizes(ThisPage, lines) # <<>>
                /\ all_lines_data' = lines
                /\ font_sizes' = CollectSizes(ThisPage, lines)
                /\ pc' = "body"
    /\ UNCHANGED <<doc, ids, previous, page_num, potential_title_blocks, body_text_size,
                   processed_blocks, processed_lines, page_headings, merge_vars,
                   headings, origin, kept, result>>
    /\ UNCHANGED other_vars

\* the step of SkipPage leaving the loop over the pages instead of the page
SkipPageAndRest ==
    /\ pc = "collect"
    /\ ~CollectRaises(ThisPage, potential_title_blocks)
    /\ LET lines == CollectLines(ThisPage, potential_title_blocks)
       IN  /\ CollectSizes(ThisPage, lines) = <<>>
           /\ all_lines_data' = lines
           /\ font_sizes' = <<>>
    /\ page_num' = Len(doc)
    /\ pc' = "page"
    /\ UNCHANGED <<doc, ids, previous, potential_title_blocks, body_text_size,
                   processed_blocks, processed_lines, page_headings, merge_vars,
                   headings, origin, kept, result>>
    /\ UNCHANGED other_vars

\* extract_text.py 327-350: no font size was collected, the page is left
SkipPage ==
    /\ pc = "collect"
    /\ ~CollectRaises(ThisPage, potential_title_blocks)
    /\ LET lines == CollectLines(ThisPage, potential_title_blocks)
       IN  /\ CollectSizes(ThisPage, lines) = <<>>
           /\ all_lines_data' = lines
           /\ font_sizes' = <<>>
    /\ page_num' = page_num + 1
    /\ pc' = "page"
    /\ UNCHANGED <<doc, ids, previous, potential_title_blocks, body_text_size,
                   processed_blocks, processed_lines, page_headings, merge_vars,
                   headings, origin, kept, result>>
    /\ UNCHANGED other_vars

\* extract_text.py 352-360
MeasureBody ==
    /\ pc = "body"
    /\ body_text_size' = BodyTextSize(font_sizes)
    /\ pc' = "classify"
    /\ UNCHANGED <<doc, ids, previous, page_num, potential_title_blocks, all_lines_data,
                   font_sizes, processed_blocks, processed_lines, page_headings,
                   merge_vars, headings, origin, kept, result>>
    /\ UNCHANGED other_vars

\* the block classifier going on with the consumed set as the last page left it
ClassifyBlocksKeepingConsumed ==
    /\ pc = "classify"
    /\ LET acc == BlockPass(ThisPage, page_num, ids, body_text_size, all_lines_data,
                            [headings |-> headings, origin |-> origin,
                             processed_blocks |-> processed_blocks])
       IN  /\ headings' = acc.headings
           /\ origin' = acc.origin
           /\ processed_blocks' = acc.processed_blocks
    /\ pc' = "mixed"
    /\ UNCHANGED <<doc, ids, previous, page_num, potential_title_blocks, all_lines_data,
                   font_sizes, body_text_size, processed_lines, page_headings,
                   merge_vars, kept, result>>
    /\ UNCHANGED other_vars

\* extract_text.py 362-436: the block classifier
ClassifyBlocks ==
    /\ pc = "classify"
    /\ LET acc == BlockPass(ThisPage, page_num, ids, body_text_size, all_lines_data,
                            [headings |-> headings, origin |-> origin,
                             processed_blocks |-> {}])
       IN  /\ headings' = acc.headings
           /\ origin' = acc.origin
           /\ processed_blocks' = acc.processed_blocks
    /\ pc' = "mixed"
    /\ UNCHANGED <<doc, ids, previous, page_num, potential_title_blocks, all_lines_data,
                   font_sizes, body_text_size, processed_lines, page_headings,
                   merge_vars, kept, result>>
    /\ UNCHANGED other_vars

\* extract_text.py 438-485: the mixed-line scan
ScanMixedLines ==
    /\ pc = "mixed"
    /\ LET acc == MixedPass(ThisPage, page_num, ids, processed_blocks, all_lines_data,
                            [headings |-> headings, origin |-> origin,
                             processed_lines |-> {}])
       IN  /\ headings' = acc.headings
           /\ origin' = acc.origin
           /\ processed_lines' = acc.processed_lines
    /\ pc' = "titles"
    /\ UNCHANGED <<doc, ids, previous, page_num, potential_title_blocks, all_lines_data,
                   font_sizes, body_text_size, processed_blocks, page_headings,
                   merge_vars, kept, result>>
    /\ UNCHANGED other_vars

\* extract_text.py 487-551: the title-region pass
ScanTitleRegion ==
    /\ pc = "titles"
    /\ LET acc == TitleRegionPass(ThisPage, page_num, ids, potential_title_blocks,
                                  [headings |-> headings, origin |-> origin,
                                   processed_blocks |-> processed_blocks])
       IN  /\ headings' = acc.headings
           /\ origin' = acc.origin
           /\ processed_blocks' = acc.processed_blocks
    /\ pc' = "lines"
    /\ UNCHANGED <<doc, ids, previous, page_num, potential_title_blocks, all_lines_data,
                   font_sizes, body_text_size, processed_lines, page_headings,
                   merge_vars, kept, result>>
    /\ UNCHANGED other_vars

\* extract_text.py 553-651: the lines are sorted and the line pass fills
\* page_headings
ScanLines ==
    /\ pc = "lines"
    /\ all_lines_data' = SortByY(all_lines_data)
    /\ LET acc == LinePass(ThisPage, page_num, ids, body_text_size, processed_blocks,
                           SortByY(all_lines_data),
                           [page_headings |-> <<>>, origin |-> <<>>])
       IN  /\ page_headings' = acc.page_headings
           /\ trail' = [page |-> acc.origin, chain |-> None, merged |-> <<>>]
    /\ merged_page_headings' = <<>>
    /\ merge_i' = 0
    /\ merge_j' = 0
    /\ current_heading' = None
    /\ pc' = "merge"
    /\ UNCHANGED <<doc, ids, previous, page_num, potential_title_blocks, font_sizes,
                   body_text_size, processed_blocks, processed_lines, headings, origin,
                   kept, result>>
    /\ UNCHANGED other_vars

\* extract_text.py 653-655: page_headings[i] is None
MergeSkip ==
    /\ pc = "merge" /\ current_heading = None
    /\ merge_i < Len(page_headings) /\ page_headings[merge_i + 1] = None
    /\ merge_i' = merge_i + 1
    /\ UNCHANGED <<pc, doc, ids, previous, page_num, page_vars, merge_j, current_heading,
                   merged_page_headings, trail, headings, origin, kept, result>>
    /\ UNCHANGED other_vars

\* extract_text.py 657-659: a chain starts at page_headings[i]
MergeStart ==
    /\ pc = "merge" /\ current_heading = None
    /\ merge_i < Len(page_headings) /\ page_headings[merge_i + 1] # None
    /\ current_heading' = page_headings[merge_i + 1]
    /\ merge_j' = merge_i + 1
    /\ trail' = [trail EXCEPT !.chain = trail.page[merge_i + 1]]
    /\ UNCHANGED <<pc, doc, ids, previous, page_num, page_vars, merge_i,
                   merged_page_headings, headings, origin, kept, result>>
    /\ UNCHANGED other_vars

\* extract_text.py 660-661: the inner loop has a candidate to look at
HasNext == merge_j < Len(page_headings) /\ page_headings[merge_j + 1] # None

\* extract_text.py 660-670: page_headings[j] is merged into the chain; the chain
\* is the object page_headings[i], whose text grows
MergeAbsorb ==
    /\ pc = "merge" /\ current_heading # None
    /\ HasNext /\ CanMerge(current_heading[1], page_headings[merge_j + 1][1])
    /\ LET grown == [current_heading[1] EXCEPT
                        !.text = @ \o " " \o page_headings[merge_j + 1][1].text]
       IN  /\ current_heading' = <<grown>>
           /\ page_headings' = [page_headings EXCEPT ![merge_i + 1] = <<grown>>]
    /\ merge_j' = merge_j + 1
    /\ trail' = [trail EXCEPT !.chain =
                    <<[@[1] EXCEPT !.lines = @ \cup trail.page[merge_j + 1][1].lines]>>]
    /\ UNCHANGED <<pc, doc, ids, previous, page_num, potential_title_blocks,
                   all_lines_data, font_sizes, body_text_size, processed_blocks,
                   processed_lines, merge_i, merged_page_headings, headings, origin,
                   kept, result>>
    /\ UNCHANGED other_vars

\* extract_text.py 672-675: the chain ends and is added to merged_page_headings
MergeEmit ==
    /\ pc = "merge" /\ current_heading # None
    /\ ~(HasNext /\ CanMerge(current_heading[1], page_headings[merge_j + 1][1]))
    /\ merged_page_headings' = Append(merged_page_headings, FinalHeading(current_heading[1]))
    /\ merge_i' = merge_j
    /\ current_heading' = None
    /\ trail' = [trail EXCEPT !.chain = None, !.merged = @ \o trail.chain]
    /\ UNCHANGED <<pc, doc, ids, previous, page_num, page_vars, merge_j, headings, origin,
                   kept, result>>
    /\ UNCHANGED other_vars

\* the step of FinishPage with the page's headings put in front of the list
FinishPagePrepending ==
    /\ pc = "merge" /\ current_heading = None
    /\ merge_i >= Len(page_headings)
    /\ headings' = merged_page_headings \o headings
    /\ origin' = trail.merged \o origin
    /\ page_num' = page_num + 1
    /\ pc' = "page"
    /\ UNCHANGED <<doc, ids, previous, page_vars, merge_vars, kept, result>>
    /\ UNCHANGED other_vars

\* extract_text.py 652, 677: the merged headings of the page join the list
FinishPage ==
    /\ pc = "merge" /\ current_heading = None
    /\ merge_i >= Len(page_headings)
    /\ headings' = headings \o merged_page_headings
    /\ origin' = origin \o trail.merged
    /\ page_num' = page_num + 1
    /\ pc' = "page"
    /\ UNCHANGED <<doc, ids, previous, page_vars, merge_vars, kept, result>>
    /\ UNCHANGED other_vars

\* extract_text.py 279, 679: no page is left, the list is returned
EndDocument ==
    /\ pc = "page" /\ page_num = Len(doc)
    /\ pc' = "input"
    /\ UNCHANGED <<doc, ids, previous, page_num, page_vars, merge_vars, headings,
                   origin, kept, result>>
    /\ UNCHANGED other_vars

\* format.py 8-236: one call of assign_heading_levels
AssignLevels ==
    /\ pc = "input"
    /\ LET tk == TitleAndKept(headings)
       IN  result' = OutlineOf(tk) /\ kept' = tk.kept
    /\ pc' = "done"
    /\ UNCHANGED <<doc, ids, previous, page_num, page_vars, merge_vars, headings, origin>>
    /\ UNCHANGED other_vars

\* the same document is processed again, by a run whose objects have identities
\* of their own
Rerun ==
    /\ pc = "done" /\ Len(previous) + 1 < MaxRuns
    /\ previous' = Append(previous, [ids |-> ids, result |-> result])
    /\ ids' \in AddressLayouts
    /\ pc' = "page"
    /\ page_num' = 0
    /\ potential_title_blocks' = <<>>
    /\ all_lines_data' = <<>>
    /\ font_sizes' = <<>>
    /\ body_text_size' = 0
    /\ processed_blocks' = {}
    /\ processed_lines' = {}
    /\ page_headings' = <<>>
    /\ merge_i' = 0
    /\ merge_j' = 0
    /\ current_heading' = None
    /\ merged_page_headings' = <<>>
    /\ trail' = NoTrail
    /\ headings' = <<>>
    /\ origin' = <<>>
    /\ kept' = <<>>
    /\ result' = EmptyResult
    /\ UNCHANGED doc
    /\ UNCHANGED other_vars

Next ==
    \/ ScanTitles \/ CollectPage \/ SkipPage \/ MeasureBody
    \/ ClassifyBlocks \/ ScanMixedLines \/ ScanTitleRegion \/ ScanLines
    \/ MergeSkip \/ MergeStart \/ MergeAbsorb \/ MergeEmit \/ FinishPage
    \/ EndDocument \/ AssignLevels \/ Rerun

Spec == Init /\ [][Next]_vars

(***************************************************************************)
(* assign_heading_levels on its own, over bounded heading lists.           *)
(***************************************************************************)
MaxHeadings == 5

Heading(text, font_size, page) ==
    [text |-> text, font_size |-> font_size, bold |-> FALSE, italic |-> FALSE, page |-> page]

\* the headings the input lists are made of, in page order
MasterHeadings ==
    << Heading("Page 4", 3000, 0),
       Heading("Annual Report 2024", 2400, 0),
       Heading("A Plan for Growth", 2400, 0),
       Heading(" Project Overview ", 2400, 0),
       Heading("Report", 2000, 0),
       Heading("Regular Pathway", 2400, 0),
       Heading("Pathway Options Guide", 2600, 1),
       Heading("Results", 2400, 1),
       Heading("Annual Report 2024", 2000, 1),
       Heading("Section Overview", 1600, 1),
       Heading("Introduction", 1400, 1),
       Heading("Report 2024", 2600, 2),
       Heading("Discussion", 1800, 2),
       Heading("Methods", 1100, 2) >>

RECURSIVE Pick(_, _)
\* the elements of seq at the positions of the set idx, in order
Pick(seq, idx) ==
    IF seq = <<>> THEN <<>>
    ELSE Pick(SubSeq(seq, 1, Len(seq) - 1), idx)
         \o (IF Len(seq) \in idx THEN <<seq[Len(seq)]>> ELSE <<>>)

\* the sublists of MasterHeadings of at most MaxHeadings headings
HeadingLists ==
    { Pick(MasterHeadings, idx) :
        idx \in { x \in SUBSET (1..Len(MasterHeadings)) : Cardinality(x) <= MaxHeadings } }

InitLevels ==
    /\ pc = "input"
    /\ doc = <<>>
    /\ ids = CHOOSE a \in AddressLayouts : TRUE
    /\ previous = <<>>
    /\ page_num = 0
    /\ FreshPage
    /\ headings \in HeadingLists
    /\ origin = <<>>
    /\ kept = <<>>
    /\ result = EmptyResult
    /\ FilterIdle /\ MainIdle

NextLevels == AssignLevels

SpecLevels == InitLevels /\ [][NextLevels]_vars

(***************************************************************************)
(* The block classifier on its own: pages with one block of up to MaxSpans *)
(* spans over a paragraph, as page 0 and as page 1 of the document.        *)
(***************************************************************************)
MaxSpans == 4

\* span sizes at the body size, at 1.5 times the body size, and above
BlockSpanSizes == {1100, 1650, 1800, 6000}

SpanTexts == <<"Annual ", "Budget ", "Review ", "Meeting">>

\* a one-line block whose spans have the sizes of the list, over a paragraph
BlockPage(sizes) ==
    Page(<<TextBlock(<<TextLine([k \in 1..Len(sizes) |->
                           TextSpan(SpanTexts[((k - 1) % 4) + 1], sizes[k], 0, "Helvetica",
                                    7200 + 10000 * (k - 1), 20000)])>>),
           Paragraph(30000)>>, <<>>)

BlockPages == {BlockPage(sizes) : sizes \in UNION {[1..n -> BlockSpanSizes] : n \in 1..MaxSpans}}

BlockDocuments == {<<p>> : p \in BlockPages} \cup {<<EmptyPage, p>> : p \in BlockPages}

InitBlock ==
    /\ pc = "page"
    /\ doc \in BlockDocuments
    /\ ids \in AddressLayouts
    /\ previous = <<>>
    /\ StartRun
    /\ FilterIdle /\ MainIdle

\* extract_text.py 279-436: the page loop up to the end of the block classifier
NextBlock == ScanTitles \/ CollectPage \/ SkipPage \/ MeasureBody \/ ClassifyBlocks

SpecBlock == InitBlock /\ [][NextBlock]_vars

(***************************************************************************)
(* Text reconstruction on its own: pages whose first block starts with a   *)
(* 16-point line of up to MaxFragments spans, in the header or in the body *)
(* of the page, followed by two lines of body text.                        *)
(***************************************************************************)
MaxFragments == 3

\* span texts that overlap one another, and span texts that do not
FragmentTexts == {"RFP: Request f", "quest for Prop", "Proposal", "Annual", "Summary"}

FragmentLines == UNION {[1..n -> FragmentTexts] : n \in 1..MaxFragments}

FragmentPositions == {3000, 20000}

FragmentPage(texts, y) ==
    Page(<<TextBlock(<<TextLine([k \in 1..Len(texts) |->
                           TextSpan(texts[k], 1600, 0, "Helvetica",
                                    7200 + 10000 * (k - 1), y)]),
                       TextLine(<<TextSpan("The committee met twice during the year",
                                           1098, 0, "Helvetica", 7200, y + 2000)>>),
                       TextLine(<<TextSpan("and agreed on the work of the next one.",
                                           1098, 0, "Helvetica", 7200, y + 3400)>>)>>),
           Paragraph(30000)>>, <<>>)

FragmentPages == {FragmentPage(texts, y) : texts \in FragmentLines, y \in FragmentPositions}

FragmentDocuments == {<<p>> : p \in FragmentPages} \cup {<<EmptyPage, p>> : p \in FragmentPages}

InitText ==
    /\ pc = "page"
    /\ doc \in FragmentDocuments
    /\ ids \in AddressLayouts
    /\ previous = <<>>
    /\ StartRun
    /\ FilterIdle /\ MainIdle

\* extract_text.py 279-647: the page loop up to the end of the line pass
NextText ==
    \/ ScanTitles \/ CollectPage \/ SkipPage \/ MeasureBody
    \/ ClassifyBlocks \/ ScanMixedLines \/ ScanTitleRegion \/ ScanLines

SpecText == InitText /\ [][NextText]_vars

(***************************************************************************)
(* The line pass on its own: pages that carry the same one-span line twice,*)
(* in two sizes, above and below a paragraph of 11-point body text.        *)
(***************************************************************************)
\* sizes at the body size and inside each of the size ranges of the line pass
LineSizes == {1100, 1220, 1330, 1550}

LineTexts == {"Meetings", "Terms of the chair", "Quarterly Summary",
              "local chair", "Summary"}

\* flags and font of a plain, a bold and an italic span
LineStyles == {<<0, "Helvetica">>, <<16, "Helvetica-Bold">>, <<2, "Helvetica-Oblique">>}

Styled(text, style, size, y) ==
    TextBlock(<<TextLine(<<TextSpan(text, size, style[1], style[2], 7200, y)>>)>>)

LinePage(text, style, size, other_size) ==
    Page(<<Styled(text, style, size, 20000), Paragraph(30000),
           Styled(text, style, other_size, 50000)>>, <<>>)

LinePages == {LinePage(text, style, size, other_size) :
                 text \in LineTexts, style \in LineStyles,
                 size \in LineSizes, other_size \in LineSizes}

LineDocuments == {<<p>> : p \in LinePages} \cup {<<EmptyPage, p>> : p \in LinePages}

InitLine ==
    /\ pc = "page"
    /\ doc \in LineDocuments
    /\ ids \in AddressLayouts
    /\ previous = <<>>
    /\ StartRun
    /\ FilterIdle /\ MainIdle

SpecLine == InitLine /\ [][NextText]_vars

(***************************************************************************)
(* The body text size of a page on its own, over bounded lists of sizes.   *)
(***************************************************************************)
MaxSizes == 4

\* rounded span sizes below, at and above 20.0
SpanSizes == {1100, 1200, 1990, 2000, 2400}

\* the lists font_sizes of a page with at least one retained span
SizeLists == UNION {[1..n -> SpanSizes] : n \in 1..MaxSizes}

InitBody ==
    /\ pc = "body"
    /\ doc = <<>>
    /\ ids = CHOOSE a \in AddressLayouts : TRUE
    /\ previous = <<>>
    /\ page_num = 0
    /\ potential_title_blocks = <<>>
    /\ all_lines_data = <<>>
    /\ font_sizes \in SizeLists
    /\ body_text_size = 0
    /\ processed_blocks = {}
    /\ processed_lines = {}
    /\ page_headings = <<>>
    /\ merge_i = 0
    /\ merge_j = 0
    /\ current_heading = None
    /\ merged_page_headings = <<>>
    /\ trail = NoTrail
    /\ headings = <<>>
    /\ origin = <<>>
    /\ kept = <<>>
    /\ result = EmptyResult
    /\ FilterIdle /\ MainIdle

NextBody == MeasureBody

SpecBody == InitBody /\ [][NextBody]_vars

(***************************************************************************)
(* is_non_meaningful_heading on its own, over a bounded set of strings.    *)
(***************************************************************************)
MaxDots == 9

RECURSIVE Dots(_)
Dots(n) == IF n = 0 THEN "" ELSE "." \o Dots(n - 1)

\* strings with runs of dots of every length up to MaxDots, at the start, in the
\* middle and at the end
DotLeaderTexts ==
    { pre \o Dots(n) \o suf :
        pre \in {"", "Contents ", "Chapter 1 "}, n \in 3..MaxDots, suf \in {"", " 12"} }

\* the word page in several letter cases, followed or not by spaces and digits
PageNumberTexts ==
    { w \o sp \o d :
        w \in {"page", "Page", "PAGE", "pAgE"}, sp \in {"", " ", "  "},
        d \in {"4", "12", "4a", ""} }

\* headings, and strings that one or several rules of the filter reject
OtherTexts ==
    { "Overview of Findings", "Project Scope", "Key Results", "Introduction",
      "ab", "3 / 4", "fig. 2", "appendix b", "www.example.com", "12.", "- - -",
      "s.no", "Chapter 1 ... 5", "Signature of the applicant", "10 20 30",
      "Total", "Name:", "Results (draft)", "Application form for the grant of a loan",
      "FAQ", " Map ", "Aims" }

FilterTexts == DotLeaderTexts \cup PageNumberTexts \cup OtherTexts

InitFilter ==
    /\ pc = "text"
    /\ filter_text \in FilterTexts
    /\ rejected = FALSE
    /\ MainIdle
    /\ doc = <<>>
    /\ ids = CHOOSE a \in AddressLayouts : TRUE
    /\ previous = <<>>
    /\ StartRun

\* extract_text.py 6-67: one call of is_non_meaningful_heading
ApplyFilter ==
    /\ pc = "text"
    /\ rejected' = is_non_meaningful_heading(filter_text)
    /\ pc' = "verdict"
    /\ UNCHANGED <<doc, ids, previous, page_num, page_vars, merge_vars, headings, origin,
                   kept, result, filter_text, main_vars>>

NextFilter == ApplyFilter

SpecFilter == InitFilter /\ [][NextFilter]_vars

(***************************************************************************)
(* main.py: the batch driver.  /app/input is missing, or exists and can or *)
(* cannot be listed; /app/output can or cannot be made; the pipeline and   *)
(* the writing of its result succeed or raise, file by file.               *)
(***************************************************************************)
MaxFiles == 3

FileNames == {"a.pdf", "b.PDF", "c.pdf", "notes.txt"}

\* what os.listdir can return: distinct names, in any order
Listings ==
    UNION { { l \in [1..n -> FileNames] : \A x, y \in 1..n : x # y => l[x] # l[y] } :
            n \in 0..MaxFiles }

\* main.py 37: f.lower().endswith('.pdf')
IsPdfName(f) == EndsWith(Lower(f), ".pdf")

InputDirs ==
    {[exists |-> FALSE, listable |-> FALSE, names |-> <<>>],
     [exists |-> TRUE, listable |-> FALSE, names |-> <<>>]}
    \cup {[exists |-> TRUE, listable |-> TRUE, names |-> l] : l \in Listings}

InitMain ==
    /\ main_pc = "start"
    /\ input_dir \in InputDirs
    /\ output_dir \in {"present", "absent", "blocked"}
    /\ pdf_files = <<>>
    /\ file_k = 0
    /\ processed_count = 0
    /\ failed_count = 0
    /\ invoked = [f \in FileNames |-> 0]
    /\ exit_status = <<>>
    /\ FilterIdle
    /\ pc = "off"
    /\ doc = <<>>
    /\ ids = CHOOSE a \in AddressLayouts : TRUE
    /\ previous = <<>>
    /\ StartRun

pipeline_vars == <<pc, doc, ids, previous, page_num, page_vars, merge_vars, headings,
                   origin, kept, result>>

\* an exception leaves main(): the interpreter prints it and exits with status 1
Uncaught ==
    /\ main_pc' = "raised"
    /\ exit_status' = <<1>>

\* main.py 31-34: sys.exit(1) when the input directory does not exist
CheckInputDir ==
    /\ main_pc = "start"
    /\ IF input_dir.exists
       THEN main_pc' = "list" /\ UNCHANGED exit_status
       ELSE main_pc' = "exited" /\ exit_status' = <<1>>
    /\ UNCHANGED <<input_dir, output_dir, pdf_files, file_k, processed_count,
                   failed_count, invoked, filter_vars, pipeline_vars>>

\* main.py 37-42: the PDF files are listed; return 0 when there is none
ListPdfFiles ==
    /\ main_pc = "list"
    /\ IF ~input_dir.listable
       THEN Uncaught /\ UNCHANGED pdf_files
       ELSE /\ pdf_files' = SelectSeq(input_dir.names, IsPdfName)
            /\ IF pdf_files' = <<>>
               THEN main_pc' = "returned" /\ exit_status' = <<0>>
               ELSE main_pc' = "makedirs" /\ UNCHANGED exit_status
    /\ UNCHANGED <<input_dir, output_dir, file_k, processed_count, failed_count, invoked,
                   filter_vars, pipeline_vars>>

\* main.py 45-54: os.makedirs(output_dir, exist_ok=True), then the counters
MakeOutputDir ==
    /\ main_pc = "makedirs"
    /\ IF output_dir = "blocked"
       THEN Uncaught /\ UNCHANGED output_dir
       ELSE main_pc' = "loop" /\ output_dir' = "present" /\ UNCHANGED exit_status
    /\ processed_count' = 0
    /\ failed_count' = 0
    /\ UNCHANGED <<input_dir, pdf_files, file_k, invoked, filter_vars, pipeline_vars>>

\* main.py 56-76: one file: the pipeline is invoked and its result written; an
\* Exception of either is caught and counted
ProcessFile ==
    /\ main_pc = "loop" /\ file_k < Len(pdf_files)
    /\ invoked' = [invoked EXCEPT ![pdf_files[file_k + 1]] = @ + 1]
    /\ \E outcome \in {"written", "pipeline raises", "writing raises"} :
           IF outcome = "written"
           THEN processed_count' = processed_count + 1 /\ UNCHANGED failed_count
           ELSE failed_count' = failed_count + 1 /\ UNCHANGED processed_count
    /\ file_k' = file_k + 1
    /\ UNCHANGED <<main_pc, input_dir, output_dir, pdf_files, exit_status, filter_vars,
                   pipeline_vars>>

\* main.py 78-89: the loop is over, return 0
FinishBatch ==
    /\ main_pc = "loop" /\ file_k = Len(pdf_files)
    /\ main_pc' = "returned"
    /\ exit_status' = <<0>>
    /\ UNCHANGED <<input_dir, output_dir, pdf_files, file_k, processed_count,
                   failed_count, invoked, filter_vars, pipeline_vars>>

NextMain ==
    \/ CheckInputDir \/ ListPdfFiles \/ MakeOutputDir \/ ProcessFile \/ FinishBatch

\* main() is one sequential process that is never suspended for good
SpecMain == InitMain /\ [][NextMain]_vars /\ WF_vars(NextMain)

(***************************************************************************)
(* Properties of assign_heading_levels (SpecLevels).                       *)
(***************************************************************************)
Done == pc = "done"

Levels == {"H1", "H2", "H3", "H4"}

\* 1 for H1 (the highest priority) .. 4 for H4
LevelNum(level) == CHOOSE k \in 1..4 : available_levels[k] = level

\* the font sizes of the headings the outline is made from
KeptSizes == {kept[i].font_size : i \in 1..Len(kept)}

LargestKept == CHOOSE m \in KeptSizes : \A x \in KeptSizes : x <= m

SmallestKept == CHOOSE m \in KeptSizes : \A x \in KeptSizes : x >= m

RECURSIVE IsSubsequence(_, _)
\* sub is seq with some elements left out
IsSubsequence(sub, seq) ==
    IF sub = <<>> THEN TRUE
    ELSE IF seq = <<>> THEN FALSE
    ELSE IF Head(sub) = Head(seq) THEN IsSubsequence(Tail(sub), Tail(seq))
    ELSE IsSubsequence(sub, Tail(seq))

\* C1: the returned structure has exactly the fields title (a string) and outline;
\* every outline entry has exactly the fields level, text and page, its level is
\* one of H1..H4 and its text and 0-indexed page are those of its source heading,
\* the source headings being input headings in input order.
C1_OutputContract ==
    Done =>
        /\ DOMAIN result = {"title", "outline"}
        /\ result.title \in STRING
        /\ Len(result.outline) = Len(kept)
        /\ IsSubsequence(kept, headings)
        /\ \A i \in 1..Len(result.outline) :
               /\ DOMAIN result.outline[i] = {"level", "text", "page"}
               /\ result.outline[i].level \in Levels
               /\ result.outline[i].text = kept[i].text
               /\ result.outline[i].page = kept[i].page

C1_Witness ==
    /\ Done /\ result.title # "" /\ Len(result.outline) >= 3
    /\ \E i \in 1..Len(result.outline) : result.outline[i].page = 0
    /\ \E i \in 1..Len(result.outline) : result.outline[i].page = 2

\* C2: when the returned title is not empty, no outline entry's text equals it.
C2_TitleExclusive ==
    (Done /\ result.title # "") =>
        \A i \in 1..Len(result.outline) : result.outline[i].text # result.title

\* a heading of a later page carries the title's text, and the outline is not empty
C2_Witness ==
    /\ Done /\ result.title # "" /\ Len(result.outline) > 0
    /\ \E i \in 1..Len(headings) :
           headings[i].text = result.title /\ headings[i].page # 0

\* C3: of two outline entries whose source headings differ in font size, the one
\* with the larger size has the level of equal or higher priority.
C3_SizeLevelMonotone ==
    Done =>
        \A i, j \in 1..Len(result.outline) :
            kept[i].font_size > kept[j].font_size =>
                LevelNum(result.outline[i].level) <= LevelNum(result.outline[j].level)

\* more than four distinct sizes reach the outline
C3_Witness == Done /\ Cardinality(KeptSizes) > 4

\* the first-page headings of largest size, among the filtered headings, whose
\* stripped text passes the title filters
TitleSources ==
    LET fh == filtered_headings(headings)
    IN  { i \in 1..Len(fh) :
            /\ fh[i].page = 0
            /\ \A j \in 1..Len(fh) : fh[j].page = 0 => fh[j].font_size <= fh[i].font_size
            /\ IsValidTitlePart(Strip(fh[i].text)) }

TitleSourceText(i) == filtered_headings(headings)[i].text

HasRfpWord(text) == \E w \in RfpWords : Contains(Lower(text), w)

\* C7 as stated: with exactly one surviving first-page heading of largest size, the
\* title is that heading's text and no outline entry has that text.
C7_SingleFragmentAsIs ==
    (Done /\ Cardinality(TitleSources) = 1) =>
        \A i \in TitleSources :
            /\ result.title = TitleSourceText(i)
            /\ \A k \in 1..Len(result.outline) : result.outline[k].text # TitleSourceText(i)

\* C7 (amended): with exactly one surviving first-page heading of largest size,
\* whose text has none of the RFP keywords, the title is that heading's stripped
\* text; if the text has no surrounding whitespace, no outline entry has that text.
C7_SingleFragmentNoRfp ==
    (Done /\ Cardinality(TitleSources) = 1) =>
        \A i \in TitleSources :
            ~HasRfpWord(TitleSourceText(i)) =>
                /\ result.title = Strip(TitleSourceText(i))
                /\ TitleSourceText(i) = Strip(TitleSourceText(i)) =>
                       \A k \in 1..Len(result.outline) :
                           result.outline[k].text # TitleSourceText(i)

\* one size-24 heading "Annual Report 2024" over smaller first-page headings
C7_Witness ==
    /\ Done /\ Cardinality(TitleSources) = 1
    /\ result.title = "Annual Report 2024"
    /\ \E i \in 1..Len(headings) : headings[i].page = 0 /\ headings[i].font_size < 2400
    /\ Len(result.outline) > 0

\* the band of size fs when the range LargestKept - SmallestKept is cut into four
\* equal bands, counted from the top
BandOf(fs) ==
    LET range == LargestKept - SmallestKept
    IN  IF 4 * (LargestKept - fs) < range THEN 1
        ELSE IF 4 * (LargestKept - fs) < 2 * range THEN 2
        ELSE IF 4 * (LargestKept - fs) < 3 * range THEN 3
        ELSE 4

\* C8: with more than four distinct sizes, every heading of the largest size gets
\* H1, every heading of the smallest size H4, and every size the level of its band.
C8_LevelBuckets ==
    (Done /\ Cardinality(KeptSizes) > 4) =>
        \A i \in 1..Len(result.outline) :
            /\ kept[i].font_size = LargestKept => result.outline[i].level = "H1"
            /\ kept[i].font_size = SmallestKept => result.outline[i].level = "H4"
            /\ result.outline[i].level = available_levels[BandOf(kept[i].font_size)]

\* the sizes [24, 20, 16, 14, 11]
C8_Witness == Done /\ KeptSizes = {2400, 2000, 1600, 1400, 1100}

\* C9: with k <= 4 distinct sizes the i-th largest size gets Hi, so the levels used
\* are exactly H1..Hk.
C9_DirectMapping ==
    (Done /\ Cardinality(KeptSizes) <= 4) =>
        /\ \A i \in 1..Len(result.outline) :
               LevelNum(result.outline[i].level)
                   = Cardinality({x \in KeptSizes : x > kept[i].font_size}) + 1
        /\ {result.outline[i].level : i \in 1..Len(result.outline)}
               = {available_levels[k] : k \in 1..Cardinality(KeptSizes)}

C9_Witness == Done /\ Cardinality(KeptSizes) = 4 /\ Len(result.outline) = 5

(***************************************************************************)
(* Properties of the whole pipeline (Spec).                                *)
(***************************************************************************)
\* the headings of the list that an outline entry can have been made from
SourcesOf(entry) ==
    {h \in 1..Len(headings) :
        headings[h].text = entry.text /\ headings[h].page = entry.page}

\* heading h was emitted by the title-region pass on the strength of line 532-536
\* (first page, main size >= 10, more than 10 characters, 'application' or 'form')
IsTitleOverride(h) ==
    /\ origin[h].pass = "title"
    /\ IsPotentialTitleText(doc[origin[h].page + 1].blocks[origin[h].block],
                            headings[h].text, origin[h].page)

\* heading h is the join of several line-pass candidates
IsMergedHeading(h) == origin[h].pass = "line" /\ Cardinality(origin[h].lines) >= 2

LinePassOver ==
    pc = "merge" /\ merge_i = 0 /\ current_heading = None /\ merged_page_headings = <<>>

C5_SameResultOnRerun ==
    Done => \A r \in 1..Len(previous) : previous[r].result = result

\* a second run, under other identities than the first, in which both the block
\* classifier and the mixed-line scan consumed something
C5_Witness ==
    /\ Done /\ Len(previous) = 1 /\ previous[1].ids # ids
    /\ \E h \in 1..Len(headings) : origin[h].pass = "block"
    /\ \E h \in 1..Len(headings) : origin[h].pass = "mixed"
    /\ Len(result.outline) > 0

\* the inner loop of the merge step looks at the chain and the candidate after it
AtAdjacentPair ==
    /\ pc = "merge" /\ current_heading # None
    /\ merge_j < Len(page_headings) /\ page_headings[merge_j + 1] # None

\* the conditions of C6 for the chain cur and the candidate nxt
MergeConditions(cur, nxt) ==
    /\ nxt.font_size = cur.font_size
    /\ nxt.bold = cur.bold
    /\ nxt.italic = cur.italic
    /\ Ch(cur.text, Len(cur.text)) \notin {".", "?", "!"}
    /\ Len(cur.text) + 1 + Len(nxt.text) <= 100

\* at an adjacent pair the step joins the candidate to the chain, with one space,
\* if the conditions hold, and emits the chain as it stands if they do not
MergeStepFollowsConditions ==
    AtAdjacentPair =>
        LET cur == current_heading[1]
            nxt == page_headings[merge_j + 1][1]
        IN  IF MergeConditions(cur, nxt)
            THEN /\ current_heading' = <<[cur EXCEPT !.text = cur.text \o " " \o nxt.text]>>
                 /\ merged_page_headings' = merged_page_headings
            ELSE /\ current_heading' = None
                 /\ merged_page_headings' = Append(merged_page_headings, FinalHeading(cur))

\* the headings 'Section Overview' of size 16, bold, that the merge step made of
\* two lines
SectionOverviews ==
    {h \in 1..Len(headings) :
        /\ headings[h].text = "Section Overview" /\ IsMergedHeading(h)
        /\ headings[h].font_size = 1600 /\ headings[h].bold}

OnlyHeadingSize == \A h \in 1..Len(headings) : headings[h].font_size = 1600

HasEntry(text, page, level) ==
    \E k \in 1..Len(result.outline) :
        /\ result.outline[k].text = text
        /\ result.outline[k].page = page
        /\ result.outline[k].level = level

\* C6 as stated, its example: the merged heading 'Section Overview' gets level H1
\* when 16 is the only heading size.
C6_SectionOverviewGetsH1 ==
    (Done /\ OnlyHeadingSize) =>
        \A h \in SectionOverviews : HasEntry("Section Overview", headings[h].page, "H1")

\* C6 (amended): two adjacent line-pass candidates are merged exactly when font
\* size, bold and italic are equal, the chain's text does not end in '.', '?' or
\* '!' and the joined text has at most 100 characters; the merged heading
\* 'Section Overview' gets level H1 when 16 is the only heading size and the
\* document title does not contain its text, and has no outline entry when the
\* title contains it (as it does when the two lines are on page 0, where
\* 'Section Overview' is itself selected as the title).
C6_MergeRuleAndLevelOffTitle ==
    /\ [][MergeStepFollowsConditions]_vars
    /\ [](  (Done /\ OnlyHeadingSize) =>
                \A h \in SectionOverviews :
                    IF Contains(result.title, "Section Overview")
                    THEN \A k \in 1..Len(result.outline) :
                             result.outline[k].text # "Section Overview"
                    ELSE HasEntry("Section Overview", headings[h].page, "H1") )

\* 'Section' and 'Overview' were merged on the second page of a document whose
\* first page has no heading, and the merged heading has level H1
C6_Witness ==
    /\ Done /\ OnlyHeadingSize /\ result.title = ""
    /\ \E h \in SectionOverviews :
           headings[h].page = 1 /\ HasEntry("Section Overview", 1, "H1")

\* the lines of the page have been collected
Collected == pc \in {"body", "classify", "mixed", "titles", "lines", "merge"}

\* the blocks whose lines are in all_lines_data
RetainedBlocks == {all_lines_data[k].block : k \in 1..Len(all_lines_data)}

TitleBlocks == {potential_title_blocks[k] : k \in 1..Len(potential_title_blocks)}

\* the region of C10: the top y is below 10% or above 90% of the page height
InOuterTenth(block, page) ==
    100 * block.bbox[2] < 10 * page.height \/ 100 * block.bbox[2] > 90 * page.height

\* C10: a text block is treated as header/footer-region exactly when its top y is
\* below 10% or above 90% of the page height (so not at exactly 10% or 90%): the
\* lines of a text block are collected if and only if it is outside that region or
\* a potential title, and potential titles are blocks of that region of page 0.
C10_RegionBoundary ==
    Collected =>
        \A b \in 1..Len(ThisPage.blocks) :
            ThisPage.blocks[b].type = 0 =>
                /\ b \in RetainedBlocks <=>
                       (~InOuterTenth(ThisPage.blocks[b], ThisPage) \/ b \in TitleBlocks)
                /\ b \in TitleBlocks =>
                       (InOuterTenth(ThisPage.blocks[b], ThisPage) /\ page_num = 0)

\* on a page after the first, blocks one hundredth of a point above the 10% line
\* and one below the 90% line were dropped and blocks at exactly 10% and 90% were
\* retained
C10_Witness ==
    /\ Collected /\ page_num = 1
    /\ \E b \in 1..Len(ThisPage.blocks) :
           10 * (ThisPage.blocks[b].bbox[2] + 1) = ThisPage.height /\ b \notin RetainedBlocks
    /\ \E b \in 1..Len(ThisPage.blocks) :
           100 * ThisPage.blocks[b].bbox[2] = 10 * ThisPage.height /\ b \in RetainedBlocks
    /\ \E b \in 1..Len(ThisPage.blocks) :
           100 * ThisPage.blocks[b].bbox[2] = 90 * ThisPage.height /\ b \in RetainedBlocks
    /\ \E b \in 1..Len(ThisPage.blocks) :
           10 * (ThisPage.blocks[b].bbox[2] - 1) = 9 * ThisPage.height /\ b \notin RetainedBlocks

(***************************************************************************)
(* Properties of is_non_meaningful_heading (SpecFilter).                   *)
(***************************************************************************)
Filtered == pc = "verdict"

\* five or more consecutive dots somewhere in s
HasFiveDots(s) ==
    \E k \in 1..Len(s) :
        k + 4 <= Len(s) /\ \A d \in 0..4 : Ch(s, k + d) = "."

\* s is the word page in any letter case, one or more spaces, one or more digits
IsPageAndDigits(s) ==
    \E k \in 5..Len(s) :
        /\ Lower(SubSeq(s, 1, 4)) = "page"
        /\ k < Len(s)
        /\ \A m \in 5..k : Ch(s, m) = " "
        /\ \A m \in (k + 1)..Len(s) : Ch(s, m) \in Digits

\* the rules of the filter, each on its own: the rules of lines 11-57 on the
\* stripped text, the tabular-data rules and the form-field rules
MatchesRule(r, s) ==
    LET t == Strip(s)
    IN  CASE r = "short"       -> Len(t) <= 3
          [] r = "pattern"     -> NonHeadingPattern(Lower(t)) \/ WebAddressPattern(Lower(t))
          [] r = "number"      -> MatchNumberedPoint(t)
          [] r = "leaders"     -> AllIn(t, 1, Len(t), {".", "-"} \cup Spaces)
          [] r = "field word"  -> Len(t) <= 5 /\ Lower(t) \in ShortFieldWords
          [] r = "five dots"   -> HasFiveDots(t)
          [] r = "contents"    -> MatchContentsEntry(t)
          [] r = "placeholder" -> \E ph \in PlaceholderPhrases : Contains(Lower(t), ph)
          [] r = "tabular"     -> is_tabular_data(t)
          [] r = "form field"  -> is_form_field_or_label(t)

FilterRules ==
    {"short", "pattern", "number", "leaders", "field word", "five dots", "contents",
     "placeholder", "tabular", "form field"}

\* C11: the filter rejects every string with five or more consecutive dots and
\* every string 'page <digits>' in any letter case, and accepts 'Overview of
\* Findings'; it rejects a string that matches at least one of its rules and
\* accepts a string that matches none.
C11_NoiseRejection ==
    Filtered =>
        /\ HasFiveDots(filter_text) => rejected
        /\ IsPageAndDigits(filter_text) => rejected
        /\ filter_text = "Overview of Findings" => ~rejected
        /\ rejected <=> \E r \in FilterRules : MatchesRule(r, filter_text)

\* 'Page 4' was rejected, and the page rule is the only rule it matches
C11_Witness ==
    /\ Filtered /\ filter_text = "Page 4" /\ rejected
    /\ IsPageAndDigits(filter_text)
    /\ {r \in FilterRules : MatchesRule(r, filter_text)} = {"pattern"}

(***************************************************************************)
(* Properties of the batch driver (SpecMain).                              *)
(***************************************************************************)
\* the process has ended
MainEnded == exit_status # <<>>

\* the PDF files among the names of the input directory
PdfNames == {input_dir.names[k] : k \in {x \in 1..Len(input_dir.names) : IsPdfName(input_dir.names[x])}}

\* C12: the pipeline is never invoked twice on a file; when main() has ended, it
\* has been invoked exactly once on every PDF file of the input listing, whatever
\* was raised for the files before it; when the loop has ended, processed_count +
\* failed_count is the number of PDF files found.
C12_EveryPdfInvokedOnce ==
    /\ main_pc # "off" => \A f \in FileNames : invoked[f] <= 1
    /\ (MainEnded /\ input_dir.listable) => \A f \in PdfNames : invoked[f] = 1
    /\ (main_pc = "returned" /\ pdf_files # <<>>) =>
           processed_count + failed_count = Len(pdf_files)

\* what holds of the loop of main.py 56-76 once it is entered: it ends, with the
\* pipeline invoked exactly once on every PDF file and every file counted once
BatchLoopCompletes ==
    /\ [](main_pc # "off" => \A f \in FileNames : invoked[f] <= 1)
    /\ [](main_pc = "loop" =>
             <>(/\ main_pc = "returned"
                /\ \A f \in PdfNames : invoked[f] = 1
                /\ processed_count + failed_count = Len(pdf_files)))

\* C13: whenever the input directory exists, the exit status of main() is 0.
C13_ExitStatusZero ==
    (MainEnded /\ input_dir.exists) => exit_status = <<0>>

\* what holds of the exit status: it is 0 when there is no PDF file and when the
\* loop was entered, whatever number of files failed
FailedFilesKeepStatusZero ==
    /\ [](main_pc = "loop" => <>(exit_status = <<0>>))
    /\ []((MainEnded /\ input_dir.listable /\ output_dir # "blocked") => exit_status = <<0>>)

(***************************************************************************)
(* Properties of the page loop (Spec): order, failures, passes, merging.   *)
(***************************************************************************)
\* the page indices of a list of headings or outline entries never decrease
PagesAscend(seq) ==
    \A a, b \in 1..Len(seq) : a < b => seq[a].page <= seq[b].page

\* C14: the heading list of extract_pdf_text_with_styles has non-decreasing page
\* indices at every moment of the run; the outline of assign_heading_levels has
\* non-decreasing page indices, and its entries are, in order, the kept headings,
\* which are a subsequence of the heading list.
C14_CrossPageOrdering ==
    /\ PagesAscend(headings)
    /\ Done =>
        /\ PagesAscend(result.outline)
        /\ IsSubsequence(kept, headings)
        /\ Len(result.outline) = Len(kept)
        /\ \A k \in 1..Len(kept) :
               /\ result.outline[k].text = kept[k].text
               /\ result.outline[k].page = kept[k].page

\* a finished two-page run whose outline has entries of both pages and whose
\* heading list lost an entry to the title
C14_Witness ==
    /\ Done /\ Len(doc) = 2
    /\ \E a, b \in 1..Len(result.outline) :
           result.outline[a].page = 0 /\ result.outline[b].page = 1
    /\ Len(kept) < Len(headings)

\* a text block of the page has a line without spans or bbox, or a span without size
HasMalformedFragment(page) ==
    \E b \in 1..Len(page.blocks) :
        /\ page.blocks[b].type = 0
        /\ \E l \in 1..Len(page.blocks[b].lines) :
               LET line == page.blocks[b].lines[l]
               IN  \/ ~({"spans", "bbox"} \subseteq DOMAIN line)
                   \/ \E k \in 1..Len(line.spans) : "size" \notin DOMAIN line.spans[k]

\* C15: a document with a span or line that lacks an expected field does not make
\* extract_pdf_text_with_styles raise.
C15_MalformedFragmentSkipped ==
    (\E p \in 1..Len(doc) : HasMalformedFragment(doc[p])) => pc # "raised"

\* a retained block of page p (counted from 1) of the document holds a span
PageHasSizes(p) ==
    \E b \in 1..Len(doc[p].blocks) :
        /\ IsRetained(doc[p], PotentialTitleBlocks(doc[p], p - 1), b)
        /\ \E l \in 1..Len(doc[p].blocks[b].lines) : doc[p].blocks[b].lines[l].spans # <<>>

\* C16: no heading comes from a page whose retained blocks hold no span; the step
\* that collects such a page raises nothing, leaves the heading list as it is and
\* goes on to the next page; nothing is raised on a page without a malformed
\* fragment; a run that found no heading returns an empty title and outline.
C16_EmptyPageSkipped ==
    /\ [](\A k \in 1..Len(headings) : PageHasSizes(headings[k].page + 1))
    /\ [][(pc = "collect" /\ ~PageHasSizes(page_num + 1)) =>
              /\ pc' = "page" /\ page_num' = page_num + 1
              /\ headings' = headings /\ origin' = origin]_vars
    /\ [](pc = "raised" => HasMalformedFragment(ThisPage))
    /\ []((Done /\ headings = <<>>) => result = EmptyResult)

\* a finished run on a page without text followed by a page with headings
C16_Witness ==
    /\ Done /\ Len(doc) = 2
    /\ ~PageHasSizes(1)
    /\ \E k \in 1..Len(headings) : headings[k].page = 1
    /\ result.outline # <<>>

\* the lines <<block, line>> of its page that heading h was made from: all the
\* lines of the block for the block classifier and the title-region pass
CoveredLines(h) ==
    IF origin[h].pass \in {"block", "title"}
    THEN {<<origin[h].block, l>> :
             l \in 1..Len(doc[origin[h].page + 1].blocks[origin[h].block].lines)}
    ELSE origin[h].lines

\* C17: on one page no line is emitted by two detection passes: two headings of
\* the same page that come from different passes are made from disjoint lines.
C17_NoDuplicationAcrossPasses ==
    \A a, b \in 1..Len(headings) :
        (origin[a].page = origin[b].page /\ origin[a].pass # origin[b].pass) =>
            CoveredLines(a) \cap CoveredLines(b) = {}

\* the passes after the block classifier are at work on the page, or are over
AfterBlockPass == pc \in {"mixed", "titles", "lines", "merge"}

\* the blocks that heading h was made from
BlocksOf(h) == {origin[h].block} \cup {ln[1] : ln \in origin[h].lines}

\* C18: a block from which the block classifier emitted a heading is in the
\* consumed set for the rest of its page, and no other heading of that page, of
\* the block classifier or of a later pass, is made from that block.
C18_ConsumedBlocks ==
    /\ AfterBlockPass =>
           \A h \in 1..Len(headings) :
               (origin[h].page = page_num /\ origin[h].pass = "block") =>
                   ids[<<origin[h].block, 0>>] \in processed_blocks
    /\ \A a, b \in 1..Len(headings) :
           (a # b /\ origin[a].pass = "block" /\ origin[b].page = origin[a].page) =>
               origin[a].block \notin BlocksOf(b)

\* a page is finished with a heading of the block classifier, made from a block
\* whose line is heading-styled, and a heading of the line pass
C18_Witness ==
    /\ pc = "page" /\ page_num = 1
    /\ \E a, b \in 1..Len(headings) :
           /\ origin[a].pass = "block" /\ origin[a].page = 0
           /\ origin[b].pass = "line" /\ origin[b].page = 0
           /\ LineIsHeading(doc[1].blocks[origin[a].block].lines[1].spans,
                            BodyTextSize(CollectSizes(doc[1],
                                CollectLines(doc[1], PotentialTitleBlocks(doc[1], 0)))))

RECURSIVE MergeChain(_, _, _)
\* the chain that starts with the candidate cur and may take in candidates[j]
MergeChain(candidates, cur, j) ==
    IF j <= Len(candidates) /\ candidates[j] # None /\ CanMerge(cur, candidates[j][1])
    THEN MergeChain(candidates, [cur EXCEPT !.text = @ \o " " \o candidates[j][1].text], j + 1)
    ELSE [current |-> cur, next |-> j]

RECURSIVE MergeCandidates(_, _, _)
\* the merged headings of the line-pass candidates from entry k on
MergeCandidates(candidates, k, acc) ==
    IF k > Len(candidates) THEN acc
    ELSE IF candidates[k] = None THEN MergeCandidates(candidates, k + 1, acc)
    ELSE LET chain == MergeChain(candidates, candidates[k][1], k + 1)
         IN  MergeCandidates(candidates, chain.next, Append(acc, FinalHeading(chain.current)))

\* the headings of one page taken by itself: the passes run on the page, its index
\* and the identities of its objects, with an empty list and empty consumed sets
PageHeadingsOf(page, index, addresses) ==
    LET titles == PotentialTitleBlocks(page, index)
        lines  == CollectLines(page, titles)
        sizes  == CollectSizes(page, lines)
        body   == BodyTextSize(sizes)
        blocks == BlockPass(page, index, addresses, body, lines,
                            [headings |-> <<>>, origin |-> <<>>, processed_blocks |-> {}])
        mixed  == MixedPass(page, index, addresses, blocks.processed_blocks, lines,
                            [headings |-> blocks.headings, origin |-> blocks.origin,
                             processed_lines |-> {}])
        region == TitleRegionPass(page, index, addresses, titles,
                                  [headings |-> mixed.headings, origin |-> mixed.origin,
                                   processed_blocks |-> blocks.processed_blocks])
        single == LinePass(page, index, addresses, body, region.processed_blocks,
                           SortByY(lines), [page_headings |-> <<>>, origin |-> <<>>])
    IN  IF sizes = <<>> THEN <<>>
        ELSE region.headings \o MergeCandidates(single.page_headings, 1, <<>>)

\* C19: between pages and at the end of the run the heading list is the per-page
\* lists, each computed from its page and index alone, joined by ascending page
\* index; while a page is worked on, the consumed set holds the blocks of that
\* page from which the block classifier or the title-region pass emitted, and
\* nothing of an earlier page.
C19_PerPageIndependence ==
    /\ pc \in {"page", "input", "done"} =>
           headings = Concat([p \in 1..page_num |-> PageHeadingsOf(doc[p], p - 1, ids)])
    /\ AfterBlockPass =>
           processed_blocks =
               {ids[<<origin[h].block, 0>>] :
                   h \in {x \in 1..Len(headings) :
                            /\ origin[x].page = page_num
                            /\ origin[x].pass \in {"block", "title"}}}

\* a finished run on two pages, on each of which the block classifier emitted from
\* the block of the same position and identity, and a later pass another heading
C19_Witness ==
    /\ Done /\ Len(doc) = 2
    /\ \E a, b \in 1..Len(headings) :
           /\ origin[a].pass = "block" /\ origin[b].pass = "block"
           /\ origin[a].page = 0 /\ origin[b].page = 1
           /\ origin[a].block = origin[b].block
    /\ \E c \in 1..Len(headings) : origin[c].page = 1 /\ origin[c].pass = "line"

\* the retained lines of the page of heading h, in vertical order
SortedLinesOf(h) ==
    SortByY(CollectLines(doc[origin[h].page + 1],
                         PotentialTitleBlocks(doc[origin[h].page + 1], origin[h].page)))

\* the positions, in that order, of the lines heading h was made from
PositionsOf(h) ==
    {k \in 1..Len(SortedLinesOf(h)) :
        <<SortedLinesOf(h)[k].block, SortedLinesOf(h)[k].line>> \in origin[h].lines}

\* C20: the lines of a heading of the line pass are consecutive in vertical order
\* among the retained lines of its page: no line that is not part of the heading
\* lies between two lines that are.
C20_MergeOnlyConsecutive ==
    \A h \in 1..Len(headings) :
        origin[h].pass = "line" =>
            \A a, b \in PositionsOf(h) :
                \A k \in 1..Len(SortedLinesOf(h)) :
                    (a < k /\ k < b) => k \in PositionsOf(h)

\* what holds of the chain: a line between two lines of a heading of the line
\* pass that is not part of it is never a line the pass took for a non-heading
NonHeadingLineResetsChain ==
    \A h \in 1..Len(headings) :
        origin[h].pass = "line" =>
            LET page  == doc[origin[h].page + 1]
                body  == BodyTextSize(CollectSizes(page, SortedLinesOf(h)))
            IN  \A a, b \in PositionsOf(h) :
                    \A k \in 1..Len(SortedLinesOf(h)) :
                        (a < k /\ k < b /\ k \notin PositionsOf(h)) =>
                            LineIsHeading(LineOf(page, SortedLinesOf(h)[k]).spans, body)

(***************************************************************************)
(* Further properties of assign_heading_levels (SpecLevels).               *)
(***************************************************************************)
\* the headings of page 0, in list order
FirstPageOf(hs) ==
    LET onFirst(h) == h.page = 0 IN SelectSeq(hs, onFirst)

\* C21: the title returned for a heading list is the title returned for its
\* page-0 headings alone, so that two lists with the same page-0 headings get the
\* same title; it is empty when no page-0 heading is left by the filter of
\* format.py 22-61.
C21_TitleFromFirstPage ==
    Done =>
        /\ result.title = assign_heading_levels(FirstPageOf(headings)).title
        /\ FirstPageOf(filtered_headings(headings)) = <<>> => result.title = ""

\* a title was returned although a later page holds a larger heading that is a
\* valid title part, in a list that has 'pathway' on a later page only
C21_Witness ==
    /\ Done /\ result.title # ""
    /\ \E k \in 1..Len(headings) :
           /\ headings[k].page > 0
           /\ IsValidTitlePart(Strip(headings[k].text))
           /\ headings[k].font_size > MaxFontSize(FirstPageOf(headings))
    /\ is_pathway_document(headings) /\ ~is_pathway_document(FirstPageOf(headings))

(***************************************************************************)
(* Properties of the body text size (SpecBody).                            *)
(***************************************************************************)
\* the body text size of the page has been computed
Measured == pc = "classify"

\* x is a most frequent value of the list sizes with the values of the set without
\* left out
MostFrequentBut(sizes, without, x) ==
    /\ x \notin without
    /\ \E k \in 1..Len(sizes) : sizes[k] = x
    /\ \A k \in 1..Len(sizes) :
           sizes[k] \notin without => Occurrences(sizes, sizes[k]) <= Occurrences(sizes, x)

\* C22: body_text_size is a most frequent size of font_sizes, except that when
\* that size is 20.0 or more and the list holds more than one distinct size it is
\* a most frequent of the other sizes.
C22_BodyTextSize ==
    Measured =>
        \E m \in SpanSizes :
            /\ MostFrequentBut(font_sizes, {}, m)
            /\ IF m >= 2000 /\ NumDistinct(font_sizes) > 1
               THEN MostFrequentBut(font_sizes, {m}, body_text_size)
               ELSE body_text_size = m

\* the most frequent size is exactly 20.0, another size occurs, and the body text
\* size is that other size
C22_Witness ==
    /\ Measured
    /\ MostFrequentBut(font_sizes, {}, 2000)
    /\ Occurrences(font_sizes, 2000) >= 2
    /\ \A k \in 1..Len(font_sizes) :
           font_sizes[k] # 2000 => Occurrences(font_sizes, font_sizes[k]) = 1
    /\ body_text_size < 2000

(***************************************************************************)
(* Further properties of the page loop (Spec).                             *)
(***************************************************************************)
\* the conditions of C23 for a potential title: average size >= 10.0, 5 to 200
\* characters of stripped text, not only digits
QualifiesAsTitle(block) ==
    LET spans == BlockSpans(block)
        text  == Strip(Join(Texts(spans), ""))
    IN  /\ spans # <<>>
        /\ Sum(Sizes(spans)) >= 1000 * Len(spans)
        /\ Len(text) >= 5 /\ Len(text) <= 200
        /\ ~IsDigit(text)

\* the text blocks of the page that C23 lets contribute: those outside the header
\* and footer region, and on page 0 those of the region that qualify as a title
Contributing(page, index) ==
    {b \in 1..Len(page.blocks) :
        /\ page.blocks[b].type = 0
        /\ \/ ~InOuterTenth(page.blocks[b], page)
           \/ index = 0 /\ QualifiesAsTitle(page.blocks[b])}

\* C23: a text block of the header/footer region has its lines collected, and its
\* span sizes counted in font_sizes, if and only if the page is page 0 and the
\* block qualifies as a potential title; a heading is made from a block of the
\* region only on page 0 and only if the block qualifies.
C23_HeaderFooterRetention ==
    /\ Collected =>
           /\ \A b \in 1..Len(ThisPage.blocks) :
                  (ThisPage.blocks[b].type = 0 /\ InOuterTenth(ThisPage.blocks[b], ThisPage)) =>
                      (b \in RetainedBlocks <=>
                           (page_num = 0 /\ QualifiesAsTitle(ThisPage.blocks[b])))
           /\ Len(font_sizes) =
                  Sum([b \in 1..Len(ThisPage.blocks) |->
                          IF b \in Contributing(ThisPage, page_num)
                          THEN Len(BlockSpans(ThisPage.blocks[b])) ELSE 0])
    /\ \A h \in 1..Len(headings) :
           \A b \in BlocksOf(h) :
               InOuterTenth(doc[origin[h].page + 1].blocks[b], doc[origin[h].page + 1]) =>
                   (origin[h].page = 0 /\ QualifiesAsTitle(doc[origin[h].page + 1].blocks[b]))

\* the second page is collected without its running head, which qualifies as a
\* title, and without its page number; the same running head gave a heading on
\* page 0 and the page number did not
C23_Witness ==
    /\ Collected /\ page_num = 1
    /\ \E b \in 1..Len(ThisPage.blocks) :
           /\ ThisPage.blocks[b].type = 0 /\ InOuterTenth(ThisPage.blocks[b], ThisPage)
           /\ QualifiesAsTitle(ThisPage.blocks[b]) /\ b \notin RetainedBlocks
           /\ doc[1] = ThisPage
           /\ \E h \in 1..Len(headings) : origin[h].page = 0 /\ origin[h].block = b
    /\ \E b \in 1..Len(doc[1].blocks) :
           /\ doc[1].blocks[b].type = 0 /\ InOuterTenth(doc[1].blocks[b], doc[1])
           /\ ~QualifiesAsTitle(doc[1].blocks[b])
           /\ ~\E h \in 1..Len(headings) : origin[h].page = 0 /\ b \in BlocksOf(h)

(***************************************************************************)
(* Properties of the block classifier (SpecBlock).                         *)
(***************************************************************************)
\* the block that heading h of the block classifier was made from
BlockOfHeading(h) == doc[origin[h].page + 1].blocks[origin[h].block]

\* the body text size of the page of heading h
BodyOfHeading(h) ==
    LET page == doc[origin[h].page + 1]
    IN  BodyTextSize(CollectSizes(page,
            CollectLines(page, PotentialTitleBlocks(page, origin[h].page))))

\* C24: a block from which the block classifier emits a heading has at most three
\* distinct rounded sizes, a main size above 1.5 times the body text size, and
\* more than 0.7 of its spans at the main size.
C24_HeadingBlockRule ==
    \A h \in 1..Len(headings) :
        origin[h].pass = "block" =>
            LET sizes == Sizes(BlockSpans(BlockOfHeading(h)))
                block_main_size == headings[h].font_size
            IN  /\ NumDistinct(sizes) <= 3
                /\ 2 * block_main_size > 3 * BodyOfHeading(h)
                /\ 10 * Occurrences(sizes, block_main_size) > 7 * Len(sizes)

\* what holds of the block rule: a block from which the block classifier emits has
\* at most three distinct sizes and an average size above 1.5 times the body size
HeadingBlockAverageRule ==
    \A h \in 1..Len(headings) :
        origin[h].pass = "block" =>
            LET sizes == Sizes(BlockSpans(BlockOfHeading(h)))
            IN  /\ NumDistinct(sizes) <= 3
                /\ 2 * Sum(sizes) > 3 * BodyOfHeading(h) * Len(sizes)

\* C25: the text of a heading of the block classifier contains the texts of all
\* the spans of the block that have the main size, joined in source order.
C25_HeadingBlockText ==
    \A h \in 1..Len(headings) :
        origin[h].pass = "block" =>
            Contains(headings[h].text,
                     Strip(Join(Texts(MainSpans(BlockOfHeading(h))), "")))

\* what holds of the text: it is the stripped text of the last span of the block
LastSpanText ==
    \A h \in 1..Len(headings) :
        origin[h].pass = "block" =>
            LET spans == BlockSpans(BlockOfHeading(h))
            IN  headings[h].text = Strip(spans[Len(spans)].text)

\* the length of the longest suffix of a that is, letter case apart, a prefix of b
Overlap(a, b) ==
    LET fits == {k \in 1..Len(a) : k <= Len(b) /\
                    Lower(SubSeq(a, Len(a) - k + 1, Len(a))) = Lower(SubSeq(b, 1, k))}
    IN  IF fits = {} THEN 0 ELSE CHOOSE k \in fits : \A m \in fits : m <= k

RECURSIVE MergeOverlaps(_, _)
\* the fragments joined from left to right, each adding what does not overlap
MergeOverlaps(frags, acc) ==
    IF frags = <<>> THEN acc
    ELSE MergeOverlaps(Tail(frags),
             acc \o SubSeq(Head(frags), Overlap(acc, Head(frags)) + 1, Len(Head(frags))))

Chained(frags) == \A k \in 1..(Len(frags) - 1) : Overlap(frags[k], frags[k + 1]) > 0

NoOverlaps(frags) ==
    \A a, b \in 1..Len(frags) : a # b => Overlap(frags[a], frags[b]) = 0

IsLongest(frags, text) ==
    \E k \in 1..Len(frags) : frags[k] = text /\ \A m \in 1..Len(frags) : Len(frags[m]) <= Len(text)

\* what the overlap merge would make of three or more distinct fragments
Reconstructs(frags, text) ==
    Len(frags) >= 3 =>
        /\ Chained(frags) => text = MergeOverlaps(Tail(frags), Head(frags))
        /\ NoOverlaps(frags) => IsLongest(frags, text)

LinePassDone == pc = "merge"

\* the distinct texts of the spans a heading of the title-region pass is made of
TitleFragments(h) ==
    Unique(Texts(MainSpans(doc[origin[h].page + 1].blocks[origin[h].block])))

\* the distinct texts of the spans the k-th candidate of the line pass is made of
LineFragments(k) ==
    LET src == trail.page[k][1]
        ln  == CHOOSE x \in src.lines : TRUE
    IN  Unique(Texts(HeadingSpans(doc[src.page + 1].blocks[ln[1]].lines[ln[2]].spans,
                                  body_text_size)))

\* C26: a heading reconstructed from three or more distinct fragments has the
\* overlapping text of consecutive fragments once, and is the longest fragment
\* when no two fragments overlap; in the title-region pass and in the line pass.
C26_OverlapMerge ==
    LinePassDone =>
        /\ \A h \in 1..Len(headings) :
               origin[h].pass = "title" => Reconstructs(TitleFragments(h), headings[h].text)
        /\ \A k \in 1..Len(page_headings) :
               page_headings[k] # None =>
                   Reconstructs(LineFragments(k), page_headings[k][1].text)

\* what holds of the reconstruction: the fragments are joined with single spaces,
\* the line pass dropping a word that repeats the word before it
FragmentsJoinedWithSpaces ==
    LinePassDone =>
        /\ \A h \in 1..Len(headings) :
               origin[h].pass = "title" =>
                   headings[h].text = ReplaceDoubleSpaces(Strip(Join(TitleFragments(h), " ")))
        /\ \A k \in 1..Len(page_headings) :
               page_headings[k] # None =>
                   LET spans == HeadingSpans(LineOf(ThisPage,
                                    [block |-> trail.page[k][1].block,
                                     line |-> (CHOOSE x \in trail.page[k][1].lines : TRUE)[2]]).spans,
                                    body_text_size)
                   IN  page_headings[k][1].text =
                           Join(DropRepeats(Split(Strip(Join(Texts(spans), " ")))), " ")

\* C27: the filter rejects a string for its length exactly when its stripped
\* length is below 3: a string of fewer than 3 characters is rejected, and a
\* string of 3 or more characters that matches no other rule is accepted.
C27_MinimumLength ==
    Filtered =>
        LET t == Strip(filter_text)
        IN  /\ Len(t) < 3 => rejected
            /\ (Len(t) >= 3 /\ \A r \in FilterRules \ {"short"} : ~MatchesRule(r, filter_text))
                   => ~rejected

\* what holds of the length test: a string that matches no other rule is rejected
\* exactly when its stripped length is 3 or less
RejectsLengthThree ==
    (Filtered /\ \A r \in FilterRules \ {"short"} : ~MatchesRule(r, filter_text))
        => (rejected <=> Len(Strip(filter_text)) <= 3)

(***************************************************************************)
(* Properties of the removal of title text and of the top level            *)
(* (SpecLevels).                                                           *)
(***************************************************************************)
\* the headings that pass the filter of format.py 22-61 and whose text is not a
\* contiguous substring of the returned title
Survivors ==
    SelectSeq(filtered_headings(headings), LAMBDA h : ~Contains(result.title, h.text))

SurvivorSizes == {Survivors[i].font_size : i \in 1..Len(Survivors)}

\* the level of size fs when levels are assigned over the sizes in the set
LevelOver(sizes, fs) ==
    LET largest  == CHOOSE m \in sizes : \A x \in sizes : x <= m
        smallest == CHOOSE m \in sizes : \A x \in sizes : m <= x
        range    == largest - smallest
    IN  IF Cardinality(sizes) <= 4
        THEN available_levels[Cardinality({x \in sizes : x > fs}) + 1]
        ELSE IF 4 * (largest - fs) < range THEN "H1"
        ELSE IF 4 * (largest - fs) < 2 * range THEN "H2"
        ELSE IF 4 * (largest - fs) < 3 * range THEN "H3"
        ELSE "H4"

\* C28: when the returned title is not empty, no outline entry's text is a
\* contiguous substring of the title; the outline is made of the other headings,
\* and the levels are assigned over the font sizes of these alone.
C28_SubstringRemoval ==
    (Done /\ result.title # "") =>
        /\ \A i \in 1..Len(result.outline) : ~Contains(result.title, result.outline[i].text)
        /\ Len(result.outline) = Len(Survivors)
        /\ \A i \in 1..Len(Survivors) :
               /\ result.outline[i].text = Survivors[i].text
               /\ result.outline[i].page = Survivors[i].page
               /\ result.outline[i].level = LevelOver(SurvivorSizes, Survivors[i].font_size)

\* a heading of a later page whose text is a proper part of the title was dropped,
\* it was larger than every heading of the outline, and the outline starts at H1
C28_Witness ==
    /\ Done /\ result.title # "" /\ Len(result.outline) > 0
    /\ \E i \in 1..Len(headings) :
           /\ headings[i].page # 0
           /\ Contains(result.title, headings[i].text) /\ headings[i].text # result.title
           /\ \A s \in SurvivorSizes : s < headings[i].font_size
    /\ \E i \in 1..Len(result.outline) : result.outline[i].level = "H1"

\* C29: a non-empty outline has an entry of level H1, and every entry whose
\* heading has the largest font size of the non-title headings has level H1.
C29_TopLevelPresent ==
    (Done /\ Len(result.outline) > 0) =>
        /\ \E i \in 1..Len(result.outline) : result.outline[i].level = "H1"
        /\ \A i \in 1..Len(result.outline) :
               kept[i].font_size = LargestKept => result.outline[i].level = "H1"

\* the title's heading was larger than every heading of the outline, whose
\* largest heading has H1 and whose other headings have lower levels
C29_Witness ==
    /\ Done /\ result.title # "" /\ Cardinality(KeptSizes) >= 3
    /\ \E h \in 1..Len(headings) :
           headings[h].text = result.title /\ headings[h].font_size > LargestKept
    /\ \E i \in 1..Len(result.outline) :
           kept[i].font_size = LargestKept /\ result.outline[i].level = "H1"
    /\ \E i \in 1..Len(result.outline) : result.outline[i].level = "H3"

(***************************************************************************)
(* Properties of the line pass (SpecLine).                                 *)
(***************************************************************************)
\* the line pass made a candidate of a line of block b of the page
CandidateFrom(b) ==
    \E k \in 1..Len(trail.page) : trail.page[k] # None /\ trail.page[k][1].block = b

\* blocks a and b of the page are one line each, with the same texts and styles
SameLine(a, b) ==
    LET p == ThisPage.blocks[a]
        q == ThisPage.blocks[b]
    IN  /\ p.type = 0 /\ q.type = 0 /\ Len(p.lines) = 1 /\ Len(q.lines) = 1
        /\ Texts(p.lines[1].spans) = Texts(q.lines[1].spans)
        /\ \A k \in 1..Len(p.lines[1].spans) :
               /\ SpanBold(p.lines[1].spans[k]) = SpanBold(q.lines[1].spans[k])
               /\ SpanItalic(p.lines[1].spans[k]) = SpanItalic(q.lines[1].spans[k])

FirstSize(b) == SpanSize(ThisPage.blocks[b].lines[1].spans[1])

\* C30: of two lines of a page with the same text and the same bold and italic
\* flags, when the line pass takes the one with the smaller first-span size as a
\* heading, it takes the one with the larger first-span size as a heading too.
C30_SizeMonotone ==
    LinePassDone =>
        \A a, b \in 1..Len(ThisPage.blocks) :
            (SameLine(a, b) /\ FirstSize(a) < FirstSize(b) /\ CandidateFrom(a))
                => CandidateFrom(b)

\* what holds: the same for lines whose first span is not bold
SizeMonotoneUnlessBold ==
    LinePassDone =>
        \A a, b \in 1..Len(ThisPage.blocks) :
            (/\ SameLine(a, b) /\ FirstSize(a) < FirstSize(b) /\ CandidateFrom(a)
             /\ ~SpanBold(ThisPage.blocks[a].lines[1].spans[1]))
                => CandidateFrom(b)
====
